---- MODULE Spec2Model ----
(***************************************************************************)
(* Outbound-call orchestrator: the persistent call queue and its periodic  *)
(* processor (queue-processor.js), the call-state table (callDataDb.js)    *)
(* and the ingress / status-callback handlers with the retry scheduler     *)
(* (outgoing-call.js).                                                     *)
(*                                                                         *)
(* Every `await` of the source is a point where another tick or another    *)
(* HTTP handler may run, so each asynchronous handler is cut into atomic   *)
(* steps at its DB statements and carrier requests; the synchronous code   *)
(* that follows an await belongs to the same step.                         *)
(*                                                                         *)
(* Time is counted in whole hours of the server clock.  Instants kept as   *)
(* ISO-8601 text in the DB are <<"ISO", n>>, JS Date objects are           *)
(* <<"Date", n>>, SQL NULL / undefined instants are <<>>.  Text columns    *)
(* that are only copied (names, email, address, signed URL, call options)  *)
(* take no part in any decision and are left out of the rows.              *)
(***************************************************************************)
EXTENDS Integers, Sequences, FiniteSets, TLC

\* ------------------------------------------------------------------ bounds
MaxNow == 1
MaxQueue == 2
MaxCalls == 2
MaxHour == 47
MaxFrames == 3
MaxFetchAttempts == 4

\* ------------------------------------------------------- program constants
MAX_TOTAL_ATTEMPTS == 10
MAX_ACTIVE == 3

VARIABLES now, call_queue, nextQueueId, calls, carrierCalls, tick, handler,
          retryLog, delivered, firstTs, finished, seqPrev, bridge, TZ,
          booking, follow_ups

vars == <<now, call_queue, nextQueueId, calls, carrierCalls, tick, handler,
          retryLog, delivered, firstTs, finished, seqPrev, bridge, TZ,
          booking, follow_ups>>

\* two runs of the queue processor and two callback handlers can be in
\* progress at the same time
TickIds == {1, 2}
HandlerIds == {1, 2}

\* the /bookAppointment requests that can be in progress together
BookingRequests == {1, 2}

\* a request that is not in progress (new_expires_at: the expiry computed
\* before the INSERT; seen: expires_at of the lock row the SELECT returned)
IdleRequest == [pc |-> "idle", contact |-> 0, slot |-> 0, seen |-> 0,
                new_expires_at |-> 0]

\* active_bookings_lock is empty, no request is in progress and the CRM
\* calendar holds no appointment (appointments: the <<contact, slot>> pairs
\* for which bookGHLAppointment succeeded)
NoBooking == [locks |-> {}, req |-> [r \in BookingRequests |-> IdleRequest],
              appointments |-> {}]

\* a run of checkAndProcessFollowUps that is not in progress (dueFollowUps:
\* the rows the run selected, i: the row the loop is at, deleting: why the
\* run is deleting the row)
IdleFollowUpRun == [pc |-> "idle", dueFollowUps |-> <<>>, i |-> 0,
                    deleting |-> ""]

\* follow_ups is empty and no run is in progress
NoFollowUps == [rows |-> {}, nextId |-> 1, run |-> IdleFollowUpRun]

\* ------------------------------------------------------------ time values
NULL == <<>>

\* no media stream is connected (sent: the frames sent on the agent socket,
\* dropped: a carrier media frame was received and not forwarded)
NoBridge == [route |-> "none", ws |-> "CLOSED", setup |-> "none",
             elevenLabsWs |-> "null", first |-> "none", atClose |-> "none",
             closeCode |-> "none", sent |-> <<>>, dropped |-> FALSE]

ToISOString(d) == <<"ISO", d[2]>>

NewDate(x) == <<"Date", x[2]>>

DateNow == <<"Date", now>>

IsoLE(a, b) == a[2] <= b[2]

\* ------------------------------------------------------------- vocabulary
NoAnsweredBy == ""

machineDetectionStatuses ==
    {"machine_start", "fax", "machine_beep", "machine_end_silence",
     "machine_end_other", "machine_end_beep"}

\* String(x).toLowerCase() on the answered-by values of the model
toLowerCase(x) == IF x = "MACHINE_START" THEN "machine_start" ELSE x

AllAnsweredBy ==
    {NoAnsweredBy, "human", "unknown", "MACHINE_START"}
        \cup machineDetectionStatuses

AllCallStatus == {"initiated", "ringing", "in-progress", "completed",
                  "busy", "failed", "no-answer", "canceled"}

\* inputs of the whole-system specification
SysAnsweredBy == {NoAnsweredBy, "machine_start"}

SysCallStatus == {"ringing", "completed", "no-answer"}

InitStages == {8, 9}

ReplyUnknown == "OK. No call data found in calls table after retry."
ReplyLatched == "OK. Retry already handled."
ReplyMachine == "OK. Machine detected, call ended, retry scheduled."
ReplyRetry == "OK. Retryable failure, retry scheduled."
ReplyHuman == "OK. Human answered, no retry."
ReplyEnded == "OK. Call ended, no retry."
ReplyOK == "OK"

\* --------------------------------------------------------------- helpers
Min(a, b) == IF a < b THEN a ELSE b

Range(f) == {f[i] : i \in DOMAIN f}

\* ------------------------------------------------------ call_queue table
\* A row of call_queue as both INSERT statements create it.
QueueRow(id, contactId, stage, scheduledAt, firstAttempt) ==
    [queue_id |-> id, contact_id |-> contactId, phone_number |-> "+39",
     retry_stage |-> stage, status |-> "pending",
     scheduled_at |-> scheduledAt,
     first_attempt_timestamp |-> firstAttempt,
     last_attempt_at |-> NULL, last_error |-> ""]

\* variant: the LIMIT clause left out of the SELECT
SelectLimit_NoLimit(due, availableSlots) == Cardinality(due)

\* SELECT * FROM call_queue WHERE status = 'pending' AND scheduled_at <= ?
\* ORDER BY scheduled_at ASC LIMIT ?   -- every result the statement allows:
\* rows with equal scheduled_at come in an order SQL leaves open.
SelectLimit(due, availableSlots) == Min(availableSlots, Cardinality(due))

\* variant: the SELECT without its WHERE clause
PendingCalls_NoWhere(now_iso, availableSlots) ==
    LET k == SelectLimit(call_queue, availableSlots)
    IN  {s \in [1..k -> call_queue] :
            /\ \A i, j \in 1..k : i < j =>
                   /\ s[i] # s[j]
                   /\ IsoLE(s[i].scheduled_at, s[j].scheduled_at)
            /\ \A r \in call_queue \ Range(s) : \A i \in 1..k :
                   IsoLE(s[i].scheduled_at, r.scheduled_at)}

PendingCalls(now_iso, availableSlots) ==
    LET due == {r \in call_queue :
                   r.status = "pending" /\ IsoLE(r.scheduled_at, now_iso)}
        k == SelectLimit(due, availableSlots)
    IN  {s \in [1..k -> due] :
            /\ \A i, j \in 1..k : i < j =>
                   /\ s[i] # s[j]
                   /\ IsoLE(s[i].scheduled_at, s[j].scheduled_at)
            /\ \A r \in due \ Range(s) : \A i \in 1..k :
                   IsoLE(s[i].scheduled_at, r.scheduled_at)}

\* UPDATE call_queue SET status = 'processing', last_attempt_at = ?
\* WHERE queue_id = ? AND status = 'pending'
MarkProcessing(id) ==
    {IF r.queue_id = id /\ r.status = "pending"
        THEN [r EXCEPT !.status = "processing",
                       !.last_attempt_at = ToISOString(DateNow)]
        ELSE r : r \in call_queue}

\* UPDATE call_queue SET status = 'failed', last_error = ? WHERE queue_id = ?
MarkFailed(id) ==
    {IF r.queue_id = id
        THEN [r EXCEPT !.status = "failed", !.last_error = "error"]
        ELSE r : r \in call_queue}

\* DELETE FROM call_queue WHERE queue_id = ?
DeleteJob(id) == {r \in call_queue : r.queue_id # id}

\* ----------------------------------------------------------- calls table
NoRow == [callSid |-> 0, phone |-> "", contactId |-> 0, retry_count |-> 0,
          status |-> "", answeredBy |-> NoAnsweredBy,
          first_attempt_timestamp |-> NULL, retry_scheduled |-> 0]

\* getCallData: the row with first_attempt_timestamp coerced to a Date,
\* or null (NoRow) when there is none.
getCallData(callSid) ==
    IF callSid \in DOMAIN calls
       THEN [calls[callSid] EXCEPT !.first_attempt_timestamp =
                IF @ # NULL THEN NewDate(@) ELSE @]
       ELSE NoRow

\* setCallData as the queue processor calls it: INSERT OR REPLACE of a row
\* with the columns the caller passes; answeredBy stays NULL and
\* retry_scheduled takes its column default 0.
InitialCallData(callSid, job) ==
    [callSid |-> callSid, phone |-> job.phone_number,
     contactId |-> job.contact_id, retry_count |-> job.retry_stage,
     status |-> "initiated", answeredBy |-> NoAnsweredBy,
     first_attempt_timestamp |-> job.first_attempt_timestamp,
     retry_scheduled |-> 0]

setCallData(callSid, job) == (callSid :> InitialCallData(callSid, job)) @@ calls

\* variant: the retry_scheduled write is lost
updateRetryScheduled_Lost(callSid) == calls

\* updateCallData(callSid, {answeredBy}) / ({retry_scheduled: 1}):
\* UPDATE calls SET col = ? WHERE callSid = ?
updateAnsweredBy(callSid, value) ==
    IF callSid \in DOMAIN calls
       THEN [calls EXCEPT ![callSid].answeredBy = value] ELSE calls

updateRetryScheduled(callSid) ==
    IF callSid \in DOMAIN calls
       THEN [calls EXCEPT ![callSid].retry_scheduled = 1] ELSE calls

\* The record of one running call-status handler: the request body, the
\* `call` object it read, its position, and what it has done so far
\* (first: no callback for this CallSid was received before; latchedAtStart:
\* retry_scheduled was stored when the request arrived; lookups: number of
\* getCallData calls; wrote / nCmd / nIns / maxEvt: CallState writes,
\* carrier requests, queue INSERTs and 'Max Attempts Reached' events of
\* this handler; cmdFailed: a carrier request of this handler threw).
IdleHandler ==
    [pc |-> "idle", CallSid |-> 0, CallStatus |-> "", AnsweredBy |-> "",
     call |-> NoRow, currentAnsweredBy |-> "", isMachineDetected |-> FALSE,
     path |-> "", reply |-> "",
     first |-> FALSE, latchedAtStart |-> FALSE, lookups |-> 0,
     wrote |-> FALSE, nCmd |-> 0, nIns |-> 0, maxEvt |-> FALSE,
     cmdFailed |-> FALSE]

\* ------------------------------------------------------ notification sink
\* how the webhook request of a notification ends (robustFetch gives up
\* after its retries with an HTTP, timeout or network error)
SendOutcomes == {"ok", "http_error", "timeout", "network_error"}

\* variant: the sink lets the error of a failed send reach its caller
sendSlackNotification_Rethrows(outcome) ==
    IF outcome = "ok" THEN "resolved" ELSE "rejected"

\* sendNonFatalSlackNotification / sendPositiveSlackNotification: errors of
\* the send are caught at the sink and dropped, the promise resolves
sendSlackNotification(outcome) == "resolved"

\* --------------------------------------------------------- queue processor
\* The record of one run of processCallQueue (thrown: the statement of the
\* current iteration whose error went to catch (callError), "" for none).
IdleTick == [pc |-> "idle", currentActiveCalls |-> 0, pendingCalls |-> <<>>,
             i |-> 0, callRecord |-> 0, created |-> 0, thrown |-> ""]

callJob(t) == tick[t].pendingCalls[tick[t].i]

\* variant: the loop is left after the first iteration that has ended
NextJob_Stop(rec) == IdleTick

\* end of one iteration of `for (const callJob of pendingCalls)`
NextJob(rec) ==
    IF rec.i < Len(rec.pendingCalls)
       THEN [rec EXCEPT !.i = @ + 1, !.pc = "mark", !.callRecord = 0,
                        !.thrown = ""]
       ELSE IdleTick

\* countActiveTwilioCalls: the length of the carrier's list, or MAX_ACTIVE
\* when the request fails.  The list is cut at MAX_ACTIVE + 5 calls; every
\* length above MAX_ACTIVE leaves no slot, MAX_ACTIVE + 1 stands for them.
CountOutcomes == (0 .. (MAX_ACTIVE + 1)) \cup {MAX_ACTIVE}

\* what `finished` shows for one step after a run of the queue processor
\* has returned at `if (availableSlots <= 0)`
NoSlotsRun == [IdleHandler EXCEPT !.pc = "no_slots"]

\* variant: the run does not test availableSlots and selects as if every
\* slot were free
TickStart_NoSlotTest(t) ==
    /\ finished' = IdleHandler
    /\ tick[t].pc = "idle"
    /\ \E currentActiveCalls \in CountOutcomes :
         \E pendingCalls \in PendingCalls(ToISOString(DateNow), MAX_ACTIVE) :
            tick' = [tick EXCEPT ![t] =
              IF Len(pendingCalls) = 0
                 THEN IdleTick
                 ELSE [IdleTick EXCEPT !.pc = "mark",
                         !.currentActiveCalls = currentActiveCalls,
                         !.pendingCalls = pendingCalls, !.i = 1]]
    /\ UNCHANGED <<follow_ups, booking, TZ, bridge, now, call_queue, nextQueueId, calls, carrierCalls,
                   handler, retryLog, delivered, firstTs, seqPrev>>

\* processCallQueue up to the start of the loop: count, slots, SELECT.
TickStart(t) ==
    /\ tick[t].pc = "idle"
    /\ \E currentActiveCalls \in CountOutcomes :
         LET availableSlots == MAX_ACTIVE - currentActiveCalls IN
         IF availableSlots <= 0
            THEN /\ tick' = [tick EXCEPT ![t] = IdleTick]
                 /\ finished' = NoSlotsRun
            ELSE /\ finished' = IdleHandler
                 /\ \E pendingCalls \in
                       PendingCalls(ToISOString(DateNow), availableSlots) :
                     tick' = [tick EXCEPT ![t] =
                       IF Len(pendingCalls) = 0
                          THEN IdleTick
                          ELSE [IdleTick EXCEPT !.pc = "mark",
                                  !.currentActiveCalls = currentActiveCalls,
                                  !.pendingCalls = pendingCalls, !.i = 1]]
    /\ UNCHANGED <<follow_ups, booking, TZ, bridge, now, call_queue, nextQueueId, calls, carrierCalls,
                   handler, retryLog, delivered, firstTs, seqPrev>>

\* the UPDATE … 'processing'; its result (the number of changed rows) is
\* not looked at, the loop goes on to create the call.
TickMark(t) ==
    /\ finished' = IdleHandler
    /\ tick[t].pc = "mark"
    /\ call_queue' = MarkProcessing(callJob(t).queue_id)
    /\ tick' = [tick EXCEPT ![t].pc = "create"]
    /\ UNCHANGED <<follow_ups, booking, TZ, bridge, now, nextQueueId, calls, carrierCalls, handler, retryLog,
                   delivered, firstTs, seqPrev>>

\* twilioClient.calls.create: the carrier creates the call and returns its
\* sid, or the request fails.
TickCreate(t) ==
    /\ finished' = IdleHandler
    /\ tick[t].pc = "create"
    /\ \/ /\ Len(carrierCalls) < MaxCalls
          /\ carrierCalls' = Append(carrierCalls, callJob(t).queue_id)
          /\ tick' = [tick EXCEPT ![t].pc = "store",
                                  ![t].callRecord = Len(carrierCalls) + 1,
                                  ![t].created = @ + 1]
       \/ /\ carrierCalls' = carrierCalls
          /\ tick' = [tick EXCEPT ![t].pc = "fail", ![t].thrown = "create"]
    /\ UNCHANGED <<follow_ups, booking, TZ, bridge, now, call_queue, nextQueueId, calls, handler, retryLog,
                   delivered, firstTs, seqPrev>>

\* variant: the entry is removed whatever the write and the read-back gave
AfterStore_Delete(stored, verifyCallData) == "delete"

\* where the iteration goes after setCallData and the read-back: to the
\* DELETE when neither threw (stored) and the read-back is not null,
\* otherwise to catch (callError)
AfterStore(stored, verifyCallData) ==
    IF stored /\ verifyCallData # NoRow THEN "delete" ELSE "fail"

\* setCallData(callRecord.sid, {...}) and the read-back getCallData; a
\* null read-back is thrown to the outer catch.  No statement deletes or
\* replaces a row of another sid, so the read-back sees what the write
\* left and the two are one step.
TickStore(t) ==
    /\ finished' = IdleHandler
    /\ tick[t].pc = "store"
    /\ calls' = setCallData(tick[t].callRecord, callJob(t))
    /\ LET verifyCallData ==
               IF tick[t].callRecord \in DOMAIN calls'
                  THEN calls'[tick[t].callRecord] ELSE NoRow
           next == AfterStore(TRUE, verifyCallData)
       IN  tick' = [tick EXCEPT ![t].pc = next,
                      ![t].thrown = IF next = "fail" THEN "store" ELSE ""]
    /\ UNCHANGED <<follow_ups, booking, TZ, bridge, now, call_queue, nextQueueId, carrierCalls, handler,
                   retryLog, delivered, firstTs, seqPrev>>

\* setCallData throws (written = FALSE, no row), or it writes the row and
\* the read-back getCallData throws
TickStoreFails(t) ==
    /\ finished' = IdleHandler
    /\ tick[t].pc = "store"
    /\ \E written \in BOOLEAN :
         calls' = IF written THEN setCallData(tick[t].callRecord, callJob(t))
                             ELSE calls
    /\ LET next == AfterStore(FALSE, NoRow)
       IN  tick' = [tick EXCEPT ![t].pc = next,
                      ![t].thrown = IF next = "fail" THEN "store" ELSE ""]
    /\ UNCHANGED <<follow_ups, booking, TZ, bridge, now, call_queue, nextQueueId, carrierCalls, handler,
                   retryLog, delivered, firstTs, seqPrev>>

\* the UPDATE to 'processing' throws: the error is reported with a bare
\* await and the loop continues with the next job; a rejected report
\* would go to the catch of the whole cycle and end the run
TickMarkFails(t) ==
    /\ finished' = IdleHandler
    /\ tick[t].pc = "mark"
    /\ \E outcome \in SendOutcomes :
         tick' = [tick EXCEPT ![t] =
                    IF sendSlackNotification(outcome) = "rejected"
                       THEN IdleTick
                       ELSE NextJob(tick[t])]
    /\ UNCHANGED <<follow_ups, booking, TZ, bridge, now, call_queue, nextQueueId, calls, carrierCalls,
                   handler, retryLog, delivered, firstTs, seqPrev>>

\* the DELETE throws: catch (callError)
TickDeleteFails(t) ==
    /\ finished' = IdleHandler
    /\ tick[t].pc = "delete"
    /\ tick' = [tick EXCEPT ![t].pc = "fail", ![t].thrown = "delete"]
    /\ UNCHANGED <<follow_ups, booking, TZ, bridge, now, call_queue, nextQueueId, calls, carrierCalls,
                   handler, retryLog, delivered, firstTs, seqPrev>>

\* the UPDATE to 'failed' throws: the error is logged, end of the iteration
TickFailFails(t) ==
    /\ finished' = IdleHandler
    /\ tick[t].pc = "fail"
    /\ tick' = [tick EXCEPT ![t] = NextJob(tick[t])]
    /\ UNCHANGED <<follow_ups, booking, TZ, bridge, now, call_queue, nextQueueId, calls, carrierCalls,
                   handler, retryLog, delivered, firstTs, seqPrev>>

\* DELETE FROM call_queue, end of the iteration
TickDelete(t) ==
    /\ finished' = IdleHandler
    /\ tick[t].pc = "delete"
    /\ call_queue' = DeleteJob(callJob(t).queue_id)
    /\ tick' = [tick EXCEPT ![t] = NextJob(tick[t])]
    /\ UNCHANGED <<follow_ups, booking, TZ, bridge, now, nextQueueId, calls, carrierCalls, handler, retryLog,
                   delivered, firstTs, seqPrev>>

\* catch (callError): UPDATE … 'failed', end of the iteration
TickFail(t) ==
    /\ finished' = IdleHandler
    /\ tick[t].pc = "fail"
    /\ call_queue' = MarkFailed(callJob(t).queue_id)
    /\ tick' = [tick EXCEPT ![t] = NextJob(tick[t])]
    /\ UNCHANGED <<follow_ups, booking, TZ, bridge, now, nextQueueId, calls, carrierCalls, handler, retryLog,
                   delivered, firstTs, seqPrev>>

\* ---------------------------------------------------------- scheduleRetry
\* variant: the guard compares with MAX_TOTAL_ATTEMPTS instead of
\* MAX_TOTAL_ATTEMPTS - 1
MaxAttemptsReached_OffByOne(currentAttemptNumber) ==
    currentAttemptNumber >= MAX_TOTAL_ATTEMPTS

MaxAttemptsReached(currentAttemptNumber) ==
    currentAttemptNumber >= MAX_TOTAL_ATTEMPTS - 1

\* variant: the ladder without its first entry
RETRY_SCHEDULE_Shifted ==
    << [type |-> "delay", n |-> 1],
       [type |-> "immediate", n |-> 0], [type |-> "next_time", n |-> 9],
       [type |-> "immediate", n |-> 0], [type |-> "next_time", n |-> 14],
       [type |-> "immediate", n |-> 0], [type |-> "next_time", n |-> 19],
       [type |-> "immediate", n |-> 0], [type |-> "immediate", n |-> 0] >>

RETRY_SCHEDULE ==
    << [type |-> "immediate", n |-> 0], [type |-> "delay", n |-> 1],
       [type |-> "immediate", n |-> 0], [type |-> "next_time", n |-> 9],
       [type |-> "immediate", n |-> 0], [type |-> "next_time", n |-> 14],
       [type |-> "immediate", n |-> 0], [type |-> "next_time", n |-> 19],
       [type |-> "immediate", n |-> 0] >>

\* array[k] of a JavaScript array (indices from 0), undefined || fallback
At(array, k, fallback) ==
    IF k + 1 \in DOMAIN array THEN array[k + 1] ELSE fallback

\* variant: an instant equal to the target is not moved to the next day
nextOccurrence_AtOrAfter(t, hour, tz) ==
    LET target == ((t + tz) \div 24) * 24 + hour - tz
    IN  IF t > target THEN target + 24 ELSE target

\* target.setHours(hour, 0, 0, 0) in the time zone of the server process
\* (tz hours ahead of UTC); if (now >= target) one day later
nextOccurrence(t, hour, tz) ==
    LET target == ((t + tz) \div 24) * 24 + hour - tz
    IN  IF t >= target THEN target + 24 ELSE target

NextTime(hour) == nextOccurrence(now, hour, TZ)

scheduled_at_base(nextAttemptNumberForDB, forceImmediate) ==
    LET scheduleConfig == At(RETRY_SCHEDULE, nextAttemptNumberForDB - 1,
                             [type |-> "immediate", n |-> 0])
    IN  IF forceImmediate \/ scheduleConfig.type = "immediate"
           THEN DateNow
        ELSE IF scheduleConfig.type = "delay"
           THEN <<"Date", now + scheduleConfig.n>>
        ELSE <<"Date", NextTime(scheduleConfig.n)>>

\* variant: every retry stamps the current time
firstAttemptTimestamp_Now(callData) == DateNow

\* first_attempt_timestamp ? new Date(first_attempt_timestamp) : new Date()
firstAttemptTimestamp(callData) ==
    IF callData.first_attempt_timestamp # NULL
       THEN NewDate(callData.first_attempt_timestamp)
       ELSE DateNow

\* if (!safeTo || !safeContactId) return
MissingContactData(callData) == callData.phone = "" \/ callData.contactId = 0

\* variant: the retry entry repeats the attempt index of the failed call
RetryRow_SameStage(callData, id) ==
    QueueRow(id, callData.contactId, callData.retry_count,
             ToISOString(scheduled_at_base(callData.retry_count + 1, FALSE)),
             ToISOString(firstAttemptTimestamp(callData)))

\* the row of the INSERT in scheduleRetry
RetryRow(callData, id) ==
    QueueRow(id, callData.contactId, callData.retry_count + 1,
             ToISOString(scheduled_at_base(callData.retry_count + 1, FALSE)),
             ToISOString(firstAttemptTimestamp(callData)))

\* ------------------------------------------------------- status callbacks
\* History of the re-delivery specification: the event of the first
\* handler run (event), the tables that run left (post) and the number of
\* runs that have finished, counted up to 2 (runs).
NoSeq == [on |-> FALSE, event |-> <<>>, post |-> <<>>, runs |-> 0]

\* Handler h moves to rec.  When it has replied its slot is free again and
\* `finished` shows its record until the next step of the system.
Step(h, rec) ==
    /\ handler' = [handler EXCEPT ![h] =
                      IF rec.pc = "done" THEN IdleHandler ELSE rec]
    /\ finished' = IF rec.pc = "done" THEN rec ELSE IdleHandler
    /\ seqPrev' = IF seqPrev.on /\ rec.pc = "done"
                     THEN IF seqPrev.runs = 0
                             THEN [on |-> TRUE,
                                   event |-> <<rec.CallSid, rec.CallStatus,
                                               rec.AnsweredBy>>,
                                   post |-> <<call_queue', calls'>>,
                                   runs |-> 1]
                             ELSE [seqPrev EXCEPT !.runs = 2]
                     ELSE seqPrev

\* variant: the handler without its retry_scheduled test
RetryAlreadyScheduled_Never(call) == FALSE

\* if (call.retry_scheduled) …
RetryAlreadyScheduled(call) == call.retry_scheduled # 0

\* x && machineDetectionStatuses.includes(String(x).toLowerCase())
isMachine(answeredBy) ==
    /\ answeredBy # NoAnsweredBy
    /\ toLowerCase(answeredBy) \in machineDetectionStatuses

isMachineDetected(AnsweredBy, currentAnsweredBy) ==
    isMachine(AnsweredBy) \/ isMachine(currentAnsweredBy)

\* variant: only an answered call counts as still going on
isOngoing_OnlyInProgress(CallStatus) == CallStatus = "in-progress"

isOngoing(CallStatus) == CallStatus \notin {"completed", "canceled", "failed"}

\* variant: "busy" is not among the retryable statuses
isRetryableFailure_NoBusy(CallStatus, machine) ==
    \/ CallStatus \in {"completed", "canceled"} /\ machine
    \/ CallStatus = "no-answer"
    \/ CallStatus = "failed"

isRetryableFailure(CallStatus, machine) ==
    \/ CallStatus \in {"completed", "canceled"} /\ machine
    \/ CallStatus = "no-answer"
    \/ CallStatus = "busy"
    \/ CallStatus = "failed"

Reply(rec, text) == [rec EXCEPT !.pc = "done", !.reply = text]

\* the synchronous code from the machine-detected test to the last reply
Classify(rec) ==
    IF rec.isMachineDetected /\ isOngoing(rec.CallStatus)
       THEN [rec EXCEPT !.pc = "latch", !.path = "machine"]
    ELSE IF isRetryableFailure(rec.CallStatus, rec.isMachineDetected)
       THEN [rec EXCEPT !.pc = "latch", !.path = "retry"]
    ELSE IF rec.CallStatus = "completed" /\ ~rec.isMachineDetected
       THEN Reply(rec, ReplyHuman)
    ELSE IF rec.CallStatus \in {"completed", "canceled"}
            /\ ~rec.isMachineDetected
       THEN Reply(rec, ReplyEnded)
    ELSE Reply(rec, ReplyOK)

\* the synchronous code that follows a lookup that found the row
Found(rec, call) ==
    LET r == [rec EXCEPT !.call = call,
                !.currentAnsweredBy = call.answeredBy,
                !.isMachineDetected =
                    isMachineDetected(rec.AnsweredBy, call.answeredBy)]
    IN  IF RetryAlreadyScheduled(call) THEN Reply(r, ReplyLatched)
        ELSE IF rec.AnsweredBy # NoAnsweredBy
                /\ rec.AnsweredBy # call.answeredBy
           THEN [r EXCEPT !.pc = "update_ab"]
        ELSE Classify(r)

\* variant: no second lookup, the callback is answered at once
FirstLookupMiss_NoRetry(rec) == Reply(rec, ReplyUnknown)

\* what the handler does when the first lookup finds no row: wait 2 s and
\* look again
FirstLookupMiss(rec) == [rec EXCEPT !.pc = "retry_lookup"]

\* a callback arrives and the handler makes its first getCallData
Receive(h, sids, statuses, answeredBys) ==
    /\ handler[h].pc = "idle"
    /\ \E CallSid \in sids, CallStatus \in statuses,
          AnsweredBy \in answeredBys :
         LET call == getCallData(CallSid)
             rec == [IdleHandler EXCEPT !.CallSid = CallSid,
                       !.CallStatus = CallStatus, !.AnsweredBy = AnsweredBy,
                       !.first = (CallSid \notin delivered),
                       !.latchedAtStart = (call.retry_scheduled = 1),
                       !.lookups = 1]
         IN  /\ delivered' = delivered \cup {CallSid}
             /\ UNCHANGED <<follow_ups, booking, TZ, bridge, now, call_queue, nextQueueId, calls,
                            carrierCalls, tick, retryLog, firstTs>>
             /\ Step(h, IF call = NoRow THEN FirstLookupMiss(rec)
                                        ELSE Found(rec, call))

\* the carrier sends callbacks for the calls it has created
CallStatusReceive(h) ==
    Receive(h, 1..Len(carrierCalls), SysCallStatus, SysAnsweredBy)

\* variant: a callback without a row is handled like one with an empty row
SecondLookupMiss_Handled(rec) == [rec EXCEPT !.pc = "schedule"]

\* what the handler does when the second lookup finds no row either:
\* reply 200 'No call data found' and return
SecondLookupMiss(rec) == Reply(rec, ReplyUnknown)

\* after the 2 s sleep: the second getCallData; still no row: 200 and out
RetryLookup(h) ==
    /\ handler[h].pc = "retry_lookup"
    /\ UNCHANGED <<follow_ups, booking, TZ, bridge, now, call_queue, nextQueueId, calls, carrierCalls, tick,
                   retryLog, delivered, firstTs>>
    /\ LET call == getCallData(handler[h].CallSid)
           rec == [handler[h] EXCEPT !.lookups = 2]
       IN  Step(h, IF call = NoRow THEN SecondLookupMiss(rec)
                                   ELSE Found(rec, call))

\* updateCallData(CallSid, { answeredBy: AnsweredBy }); call.answeredBy = …
UpdateAnsweredBy(h) ==
    /\ handler[h].pc = "update_ab"
    /\ calls' = updateAnsweredBy(handler[h].CallSid, handler[h].AnsweredBy)
    /\ UNCHANGED <<follow_ups, booking, TZ, bridge, now, call_queue, nextQueueId, carrierCalls, tick,
                   retryLog, delivered, firstTs>>
    /\ Step(h, Classify([handler[h] EXCEPT
                           !.call.answeredBy = handler[h].AnsweredBy,
                           !.wrote = TRUE]))

\* updateCallData(CallSid, { retry_scheduled: 1 }) of either branch
SetRetryScheduled(h) ==
    /\ handler[h].pc = "latch"
    /\ calls' = updateRetryScheduled(handler[h].CallSid)
    /\ UNCHANGED <<follow_ups, booking, TZ, bridge, now, call_queue, nextQueueId, carrierCalls, tick,
                   retryLog, delivered, firstTs>>
    /\ Step(h, [handler[h] EXCEPT !.wrote = TRUE,
                  !.pc = IF handler[h].path = "machine" THEN "fetch"
                                                        ELSE "schedule"])

\* twilioClient.calls(CallSid).fetch(): the call is still running, already
\* terminal, or the request fails (caught, the retry is scheduled anyway)
FetchCall(h) ==
    /\ handler[h].pc = "fetch"
    /\ UNCHANGED <<follow_ups, booking, TZ, bridge, now, call_queue, nextQueueId, calls, carrierCalls, tick,
                   retryLog, delivered, firstTs>>
    /\ \E outcome \in {"ongoing", "terminal", "error"} :
         Step(h, [handler[h] EXCEPT !.nCmd = @ + 1,
                    !.pc = IF outcome = "ongoing" THEN "end_call"
                                                  ELSE "schedule"])

\* twilioClient.calls(CallSid).update({ status: "completed" }), best effort
EndCall(h) ==
    /\ handler[h].pc = "end_call"
    /\ UNCHANGED <<follow_ups, booking, TZ, bridge, now, call_queue, nextQueueId, calls, carrierCalls, tick,
                   retryLog, delivered, firstTs>>
    /\ Step(h, [handler[h] EXCEPT !.nCmd = @ + 1, !.pc = "schedule"])

\* scheduleRetry(call, CallSid, …) and the reply of the branch
ScheduleRetry(h) ==
    /\ handler[h].pc = "schedule"
    /\ UNCHANGED <<follow_ups, booking, TZ, bridge, now, calls, carrierCalls, tick, delivered, firstTs>>
    /\ LET callData == handler[h].call
           text == IF handler[h].path = "machine" THEN ReplyMachine
                                                  ELSE ReplyRetry
       IN  IF MaxAttemptsReached(callData.retry_count)
              THEN /\ UNCHANGED <<follow_ups, booking, TZ, bridge, call_queue, nextQueueId, retryLog>>
                   /\ Step(h, Reply([handler[h] EXCEPT !.maxEvt = TRUE],
                                    text))
           ELSE IF MissingContactData(callData)
              THEN /\ UNCHANGED <<follow_ups, booking, TZ, bridge, call_queue, nextQueueId, retryLog>>
                   /\ Step(h, Reply(handler[h], text))
           ELSE /\ call_queue' = call_queue \cup
                                   {RetryRow(callData, nextQueueId)}
                /\ nextQueueId' = nextQueueId + 1
                /\ retryLog' = retryLog \cup
                                 {<<handler[h].CallSid, nextQueueId>>}
                /\ Step(h, Reply([handler[h] EXCEPT !.nIns = @ + 1], text))

\* ----------------------------------------------------------------- ingress
\* request.body of POST /outbound-call: the fields the handler reads for the
\* phone and for the contact id ("" / 0: field absent or falsy), or no body
\* at all.
NoBody == [undefined |-> TRUE]

Bodies(phones, ids) ==
    [phone : phones, phoneNumber : phones, phone_number : phones,
     Phone : phones, contact_id : ids, contactId : ids, id : ids, Id : ids]

\* a || b of JavaScript on phone texts and on contact ids
OrText(a, b) == IF a # "" THEN a ELSE b

OrId(a, b) == IF a # 0 THEN a ELSE b

\* phone || body.phoneNumber || body.phone_number || body.Phone
toPhoneValue(body) ==
    OrText(body.phone,
           OrText(body.phoneNumber, OrText(body.phone_number, body.Phone)))

\* contact_id || body.contactId || body.contact_id || body.id || body.Id
contactId(body) ==
    OrId(body.contact_id,
         OrId(body.contactId,
              OrId(body.contact_id, OrId(body.id, body.Id))))

\* what `finished` shows for one step after the handler has replied, in the
\* specifications that record replies
IngressDone(body, code) ==
    IF seqPrev.on THEN [pc |-> "ingress", body |-> body, reply |-> code]
                  ELSE IdleHandler

\* if (!toPhoneValue || !contactId)
ValidationFails(body) == toPhoneValue(body) = "" \/ contactId(body) = 0

\* POST /outbound-call: the destructuring of an undefined body throws (500
\* from the framework), 400 without phone or contact id, 500 when the
\* signed URL cannot be fetched, otherwise one INSERT and 202.
OutboundCallWith(bodies) ==
    \E body \in bodies, signedUrlOk \in BOOLEAN :
      IF body = NoBody
         THEN /\ finished' = IngressDone(body, 500)
              /\ UNCHANGED <<follow_ups, booking, TZ, bridge, now, call_queue, nextQueueId, calls,
                             carrierCalls, tick, handler, retryLog,
                             delivered, firstTs, seqPrev>>
      ELSE IF ValidationFails(body)
         THEN /\ finished' = IngressDone(body, 400)
              /\ UNCHANGED <<follow_ups, booking, TZ, bridge, now, call_queue, nextQueueId, calls,
                             carrierCalls, tick, handler, retryLog,
                             delivered, firstTs, seqPrev>>
      ELSE IF ~signedUrlOk
         THEN /\ finished' = IngressDone(body, 500)
              /\ UNCHANGED <<follow_ups, booking, TZ, bridge, now, call_queue, nextQueueId, calls,
                             carrierCalls, tick, handler, retryLog,
                             delivered, firstTs, seqPrev>>
      ELSE /\ nextQueueId <= MaxQueue
           /\ finished' = IngressDone(body, 202)
           /\ call_queue' = call_queue \cup
                 {QueueRow(nextQueueId, contactId(body), 0,
                           ToISOString(DateNow), ToISOString(DateNow))}
           /\ firstTs' = (contactId(body) :> ToISOString(DateNow)) @@ firstTs
           /\ nextQueueId' = nextQueueId + 1
           /\ UNCHANGED <<follow_ups, booking, TZ, bridge, now, calls, carrierCalls, tick, handler, retryLog,
                          delivered, seqPrev>>

\* requests of the whole-system specification: phone and contact id under
\* their first names, present or not; every request of a new contact
SysBodies ==
    {[phone |-> p, phoneNumber |-> "", phone_number |-> "", Phone |-> "",
      contact_id |-> c, contactId |-> 0, id |-> 0, Id |-> 0] :
        p \in {"", "+39"}, c \in {0, nextQueueId}}

OutboundCall == OutboundCallWith(SysBodies)

\* ------------------------------------------------------------------- clock
AdvanceClock ==
    /\ finished' = IdleHandler
    /\ now < MaxNow
    /\ now' = now + 1
    /\ UNCHANGED <<follow_ups, booking, TZ, bridge, call_queue, nextQueueId, calls, carrierCalls, tick,
                   handler, retryLog, delivered, firstTs, seqPrev>>

\* ------------------------------------------------------- the whole system
Init ==
    /\ now = 0
    /\ \E stage \in InitStages :
         call_queue = {QueueRow(1, 1, stage, <<"ISO", 0>>, <<"ISO", 0>>)}
    /\ nextQueueId = 2
    /\ calls = <<>>
    /\ carrierCalls = <<>>
    /\ tick = [t \in TickIds |-> IdleTick]
    /\ handler = [h \in HandlerIds |-> IdleHandler]
    /\ retryLog = {}
    /\ delivered = {}
    /\ firstTs = (1 :> <<"ISO", 0>>)
    /\ finished = IdleHandler
    /\ seqPrev = NoSeq
    /\ bridge = NoBridge
    /\ TZ = 0
    /\ booking = NoBooking
    /\ follow_ups = NoFollowUps

\* Whole system, one queue-processor run and one callback at a time.
Next ==
    \/ TickStart(1)
    \/ TickMark(1)
    \/ TickCreate(1)
    \/ TickStore(1)
    \/ TickDelete(1)
    \/ TickFail(1)
    \/ CallStatusReceive(1)
    \/ RetryLookup(1)
    \/ UpdateAnsweredBy(1)
    \/ SetRetryScheduled(1)
    \/ FetchCall(1)
    \/ EndCall(1)
    \/ ScheduleRetry(1)
    \/ OutboundCall
    \/ AdvanceClock

Spec == Init /\ [][Next]_vars

\* Queue processor runs that overlap (setInterval starts a run every
\* interval whether or not the previous one has returned).
NextTicks ==
    \/ \E t \in TickIds : TickStart(t)
    \/ \E t \in TickIds : TickMark(t)
    \/ \E t \in TickIds : TickCreate(t)
    \/ \E t \in TickIds : TickStore(t)
    \/ \E t \in TickIds : TickDelete(t)
    \/ \E t \in TickIds : TickFail(t)
    \/ OutboundCall
    \/ AdvanceClock

SpecTicks == Init /\ [][NextTicks]_vars

\* One call that the queue processor has initiated from queue entry 1 (the
\* entry is deleted, its CallState row is stored), in any state callbacks
\* can have left the row in.
CallInProgress(stages, answeredBys, seqOn) ==
    /\ now = 0
    /\ call_queue = {}
    /\ nextQueueId = 2
    /\ \E stage \in stages, answeredBy \in answeredBys,
          retry_scheduled \in {0, 1} :
         calls = (1 :> [InitialCallData(1, QueueRow(1, 1, stage,
                                            <<"ISO", 0>>, <<"ISO", 0>>))
                          EXCEPT !.answeredBy = answeredBy,
                                 !.retry_scheduled = retry_scheduled])
    /\ carrierCalls = <<1>>
    /\ tick = [t \in TickIds |-> IdleTick]
    /\ handler = [h \in HandlerIds |-> IdleHandler]
    /\ retryLog = {}
    /\ delivered = {}
    /\ firstTs = (1 :> <<"ISO", 0>>)
    /\ finished = IdleHandler
    /\ seqPrev = [NoSeq EXCEPT !.on = seqOn]
    /\ bridge = NoBridge
    /\ TZ = 0
    /\ booking = NoBooking
    /\ follow_ups = NoFollowUps

\* Callbacks for one call whose handlers interleave.
InitCallbacks == CallInProgress({0, 9}, SysAnsweredBy, FALSE)

NextCallbacks ==
    \/ \E h \in HandlerIds : CallStatusReceive(h)
    \/ \E h \in HandlerIds : UpdateAnsweredBy(h)
    \/ \E h \in HandlerIds : SetRetryScheduled(h)
    \/ \E h \in HandlerIds : FetchCall(h)
    \/ \E h \in HandlerIds : EndCall(h)
    \/ \E h \in HandlerIds : ScheduleRetry(h)
    \/ AdvanceClock

SpecCallbacks == InitCallbacks /\ [][NextCallbacks]_vars

\* The same callback for one call delivered again and again, each handled
\* to the end before the next arrives: every row state, every status and
\* every answered-by value.
InitSeq == CallInProgress({0, 8, 9}, AllAnsweredBy, TRUE)

SeqReceive ==
    IF seqPrev.runs = 0
       THEN Receive(1, 1..Len(carrierCalls), AllCallStatus, AllAnsweredBy)
       ELSE Receive(1, {seqPrev.event[1]}, {seqPrev.event[2]},
                    {seqPrev.event[3]})

NextSeq ==
    \/ SeqReceive
    \/ UpdateAnsweredBy(1)
    \/ SetRetryScheduled(1)
    \/ FetchCall(1)
    \/ EndCall(1)
    \/ ScheduleRetry(1)
    \/ AdvanceClock

SpecSeq == InitSeq /\ [][NextSeq]_vars

\* ================================================================= claims
\* what the event of a callback says about retrying, independent of the
\* handler's own classification; answered-by values are read without regard
\* to letter case
MachineValue(x) ==
    \E m \in machineDetectionStatuses : toLowerCase(x) = m

RetryableEvent(rec) ==
    \/ rec.CallStatus \in {"no-answer", "busy", "failed"}
    \/ MachineValue(rec.AnsweredBy)
    \/ MachineValue(rec.currentAnsweredBy)

\* the handler that replied in the last step had read the CallState row
Handled == finished.pc = "done" /\ finished.reply # ReplyUnknown

\* C1: for every queue entry the carrier's call-creation request is issued
\* at most once, also when two runs of the queue processor overlap: no
\* queue_id occurs twice among the calls the carrier has created.
C1_CreatedAtMostOnce ==
    \A i, j \in 1..Len(carrierCalls) :
        i # j => carrierCalls[i] # carrierCalls[j]

\* C2: for every call sid, whatever callbacks for it are handled and however
\* their handlers interleave, retry scheduling inserts at most one queue
\* entry.
C2_AtMostOneRetryEntry ==
    \A e1, e2 \in retryLog : e1[1] = e2[1] => e1 = e2

\* C3: retry_scheduled is a latch.  A callback that arrives when
\* retry_scheduled is stored for its call is answered "Retry already
\* handled" in the step of its lookup, having written nothing to the
\* CallState row, sent no carrier request and inserted no queue entry; and
\* no step removes a row whose retry_scheduled is 1 or sets it back to 0.
C3_Latched ==
    /\ [](/\ \A h \in HandlerIds : ~handler[h].latchedAtStart
          /\ finished.latchedAtStart =>
                 /\ finished.reply = ReplyLatched
                 /\ ~finished.wrote
                 /\ finished.nCmd = 0
                 /\ finished.nIns = 0)
    /\ [][\A sid \in DOMAIN calls :
              calls[sid].retry_scheduled = 1 =>
                  /\ sid \in DOMAIN calls'
                  /\ calls'[sid].retry_scheduled = 1]_vars

\* C3 witness: a callback for a latched call has just been acknowledged
C3_Witness ==
    /\ finished.latchedAtStart
    /\ finished.reply = ReplyLatched
    /\ finished.CallStatus = "no-answer"

\* C4: in one run of the queue processor the number of calls created is at
\* most MAX_ACTIVE minus the active count the carrier reported at the start
\* of the run.
C4_CreationsWithinSlots ==
    \A t \in TickIds :
        tick[t].created <= MAX_ACTIVE - tick[t].currentActiveCalls

\* C4 witness: a run that found one free slot has created its one call
\* while another pending entry is due
C4_Witness ==
    \E t \in TickIds :
        /\ tick[t].currentActiveCalls = MAX_ACTIVE - 1
        /\ tick[t].created = 1
        /\ \E r \in call_queue :
               /\ r.status = "pending"
               /\ r.queue_id # callJob(t).queue_id
               /\ IsoLE(r.scheduled_at, ToISOString(DateNow))

\* C5: every queue entry has 0 <= retry_stage < MAX_TOTAL_ATTEMPTS.
C5_AttemptIndexInRange ==
    \A r \in call_queue :
        0 <= r.retry_stage /\ r.retry_stage < MAX_TOTAL_ATTEMPTS

\* C5 witness: retry scheduling has inserted the entry of the last attempt
C5_Witness ==
    \E r \in call_queue :
        /\ r.retry_stage = MAX_TOTAL_ATTEMPTS - 1
        /\ \E e \in retryLog : e[2] = r.queue_id

\* C6: every queue entry and every CallState row carries the
\* first_attempt_timestamp that the ingress gave the attempt-0 entry of its
\* sequence (sequences are told apart by their contact).
C6_FirstAttemptConstant ==
    /\ \A r \in call_queue :
           r.first_attempt_timestamp = firstTs[r.contact_id]
    /\ \A sid \in DOMAIN calls :
           calls[sid].first_attempt_timestamp = firstTs[calls[sid].contactId]

\* C6 witness: a retry entry inserted at a later hour than the first
\* attempt of its sequence, next to the CallState row of the failed call
C6_Witness ==
    \E r \in call_queue, e \in retryLog :
        /\ e[2] = r.queue_id
        /\ e[1] \in DOMAIN calls
        /\ r.first_attempt_timestamp[2] < r.scheduled_at[2]

\* C7: a callback for a call whose retry_count is MAX_TOTAL_ATTEMPTS - 1
\* inserts no queue entry and leaves the CallState row in place; when its
\* event is retryable and the latch was not yet set, the 'Max Attempts
\* Reached' event is emitted; and no step removes a CallState row.
C7_LastAttemptEndsSequence ==
    /\ [](Handled /\ finished.call.retry_count = MAX_TOTAL_ATTEMPTS - 1 =>
             /\ finished.nIns = 0
             /\ retryLog \cap ({finished.CallSid} \X (1..nextQueueId)) = {}
             /\ finished.CallSid \in DOMAIN calls
             /\ RetryableEvent(finished) /\ ~finished.latchedAtStart =>
                    finished.maxEvt)
    /\ [][DOMAIN calls \subseteq DOMAIN calls']_vars

\* C7 witness: the tenth attempt has just failed
C7_Witness ==
    /\ Handled
    /\ finished.CallStatus = "no-answer"
    /\ finished.call.retry_count = MAX_TOTAL_ATTEMPTS - 1
    /\ finished.maxEvt

\* C8: handling the same status event again, after it has been handled to
\* the end, leaves call_queue and calls exactly as the first handling left
\* them, for every status and answered-by value.
C8_DuplicateEventIdempotent ==
    seqPrev.runs >= 1 /\ handler[1].pc = "idle" =>
        <<call_queue, calls>> = seqPrev.post

\* C8 witness: a retryable event that inserted a retry has been handled a
\* second time
C8_Witness ==
    /\ seqPrev.runs = 2
    /\ handler[1].pc = "idle"
    /\ seqPrev.event[2] = "busy"
    /\ seqPrev.post[1] # {}

\* C9: a callback for a call whose latch is not set and whose retry_count
\* is below MAX_TOTAL_ATTEMPTS - 1 inserts a retry entry exactly when its
\* status is no-answer, busy or failed or the incoming or the stored
\* answered-by value is a machine value.
C9_RetryExactlyWhenRetryable ==
    Handled /\ ~finished.latchedAtStart
        /\ finished.call.retry_count < MAX_TOTAL_ATTEMPTS - 1 =>
            /\ finished.nIns \in {0, 1}
            /\ finished.nIns = 1 <=> RetryableEvent(finished)

\* C9 witness: "completed" without an answered-by value for a call whose
\* stored answered-by is a machine value has scheduled a retry
C9_Witness ==
    /\ Handled
    /\ finished.CallStatus = "completed"
    /\ finished.AnsweredBy = NoAnsweredBy
    /\ finished.currentAnsweredBy = "machine_end_beep"
    /\ finished.nIns = 1

\* C10 as stated: the first callback for a call the carrier has created is
\* never answered "No call data found".
C10_FirstCallbackNeverDropped ==
    ~(/\ finished.pc = "done"
      /\ finished.reply = ReplyUnknown
      /\ finished.first
      /\ finished.CallSid \in 1..Len(carrierCalls))

\* C10: a callback is answered "No call data found" only after two lookups,
\* and the second lookup drops it exactly when the CallState row is still
\* not stored at that moment; when the row is there at the first or at the
\* second lookup the callback is processed.
C10_DroppedOnlyIfAbsentAtRetry ==
    /\ [](finished.reply = ReplyUnknown => finished.lookups = 2)
    /\ [][\A h \in HandlerIds :
              handler[h].pc = "retry_lookup"
                  /\ handler'[h].pc # "retry_lookup" =>
                      (finished'.reply = ReplyUnknown
                          <=> handler[h].CallSid \notin DOMAIN calls)]_vars

\* C10 witness: the first callback of a call found its row on the second
\* lookup and was processed
C10_Witness ==
    /\ Handled
    /\ finished.first
    /\ finished.lookups = 2
    /\ finished.CallSid \in DOMAIN calls

\* the order the queue is to be served in: by scheduled_at, entries with
\* equal scheduled_at by queue_id
ServedBefore(a, b) ==
    \/ a.scheduled_at[2] < b.scheduled_at[2]
    \/ a.scheduled_at[2] = b.scheduled_at[2] /\ a.queue_id < b.queue_id

\* C11: the entries a run selects are initiated in ascending scheduled_at
\* order, entries with equal scheduled_at in ascending queue_id order, and
\* every due entry the run leaves out comes after all selected ones in
\* that order.
C11_ServedInQueueOrder ==
    [][\A t \in TickIds :
          tick[t].pc = "idle" /\ tick'[t].pc = "mark" =>
              LET sel == tick'[t].pendingCalls
                  due == {r \in call_queue :
                             /\ r.status = "pending"
                             /\ IsoLE(r.scheduled_at, ToISOString(DateNow))}
              IN  /\ \A i, j \in 1..Len(sel) :
                         i < j => ServedBefore(sel[i], sel[j])
                  /\ \A r \in due \ Range(sel) : \A i \in 1..Len(sel) :
                         ServedBefore(sel[i], r)]_vars

\* --------------------------------------------- a queue found at start-up
\* Two persisted entries in any status the processor leaves behind and
\* with scheduled_at in the past, now or in the future; one run of the
\* queue processor at a time.
QueueStatuses == {"pending", "processing", "failed"}

InitQueue ==
    /\ now = 0
    /\ \E st1, st2 \in QueueStatuses, at1, at2 \in 0..(MaxNow + 1) :
         call_queue =
           {[QueueRow(1, 1, 0, <<"ISO", at1>>, <<"ISO", 0>>)
                EXCEPT !.status = st1],
            [QueueRow(2, 2, 1, <<"ISO", at2>>, <<"ISO", 0>>)
                EXCEPT !.status = st2]}
    /\ nextQueueId = 3
    /\ calls = <<>>
    /\ carrierCalls = <<>>
    /\ tick = [t \in TickIds |-> IdleTick]
    /\ handler = [h \in HandlerIds |-> IdleHandler]
    /\ retryLog = {}
    /\ delivered = {}
    /\ firstTs = (1 :> <<"ISO", 0>>) @@ (2 :> <<"ISO", 0>>)
    /\ finished = IdleHandler
    /\ seqPrev = NoSeq
    /\ bridge = NoBridge
    /\ TZ = 0
    /\ booking = NoBooking
    /\ follow_ups = NoFollowUps

NextQueue ==
    \/ TickStart(1)
    \/ TickMark(1)
    \/ TickCreate(1)
    \/ TickStore(1)
    \/ TickDelete(1)
    \/ TickFail(1)
    \/ AdvanceClock

SpecQueue == InitQueue /\ [][NextQueue]_vars

\* C12: a call is created only for an entry that was pending when the run
\* selected it, and never before the entry's scheduled_at.
C12_OnlyDuePendingCreated ==
    /\ [](\A t \in TickIds : \A i \in 1..Len(tick[t].pendingCalls) :
              /\ tick[t].pendingCalls[i].status = "pending"
              /\ tick[t].pendingCalls[i].scheduled_at[2] <= now)
    /\ [][\A t \in TickIds :
              tick[t].pc = "create" /\ tick'[t].pc = "store" =>
                  /\ carrierCalls' =
                        Append(carrierCalls, callJob(t).queue_id)
                  /\ callJob(t).status = "pending"
                  /\ callJob(t).scheduled_at[2] <= now]_vars

\* C12 witness: a call has been created while an entry that is pending but
\* not yet due and an entry that is not pending wait in the queue
C12_Witness ==
    /\ Len(carrierCalls) = 1
    /\ \E r \in call_queue :
           /\ r.queue_id \notin Range(carrierCalls)
           /\ \/ r.status = "pending" /\ r.scheduled_at[2] > now
              \/ r.status = "failed" /\ r.last_error = ""

\* C13: a run of the queue processor that finds no free slot (the carrier
\* lists MAX_ACTIVE or more active calls, or the list request fails and
\* MAX_ACTIVE is assumed) creates no call and writes nothing: the step in
\* which it returns leaves call_queue, calls and the carrier's calls as
\* they were, and a run goes on to its loop only with a free slot.
C13_NoSlotsNoWrites ==
    /\ [][finished'.pc = "no_slots" =>
              /\ call_queue' = call_queue
              /\ calls' = calls
              /\ carrierCalls' = carrierCalls
              /\ tick' = tick]_vars
    /\ [](\A t \in TickIds :
              tick[t].pc # "idle" =>
                  MAX_ACTIVE - tick[t].currentActiveCalls > 0)

\* C13 witness: a run has just returned for lack of slots while a pending
\* entry is due
C13_Witness ==
    /\ finished.pc = "no_slots"
    /\ \E r \in call_queue :
           /\ r.status = "pending"
           /\ IsoLE(r.scheduled_at, ToISOString(DateNow))

\* ------------------------------------------------ the ingress on its own
\* Every request body over the names the handler accepts, the replies
\* recorded in `finished`.
InitIngress ==
    /\ now = 0
    /\ call_queue = {}
    /\ nextQueueId = 1
    /\ calls = <<>>
    /\ carrierCalls = <<>>
    /\ tick = [t \in TickIds |-> IdleTick]
    /\ handler = [h \in HandlerIds |-> IdleHandler]
    /\ retryLog = {}
    /\ delivered = {}
    /\ firstTs = <<>>
    /\ finished = IdleHandler
    /\ seqPrev = [NoSeq EXCEPT !.on = TRUE]
    /\ bridge = NoBridge
    /\ TZ = 0
    /\ booking = NoBooking
    /\ follow_ups = NoFollowUps

OutboundCallAny ==
    OutboundCallWith(Bodies({"", "+39"}, {0, nextQueueId}) \cup {NoBody})

NextIngress ==
    \/ OutboundCallAny
    \/ AdvanceClock

SpecIngress == InitIngress /\ [][NextIngress]_vars

\* a request that carries no phone or no contact id under any of the names
\* the handler accepts
LacksPhoneOrContact(body) ==
    \/ body = NoBody
    \/ \A f \in {"phone", "phoneNumber", "phone_number", "Phone"} :
           body[f] = ""
    \/ \A f \in {"contact_id", "contactId", "id", "Id"} : body[f] = 0

\* C14: a request without a phone or without a contact id is answered 400
\* and changes nothing; a request answered 202 adds exactly one queue
\* entry, with retry_stage 0 and status pending, and no request with phone
\* and contact id is answered 400.
C14_IngressValidation ==
    [][finished'.pc = "ingress" =>
          /\ LacksPhoneOrContact(finished'.body) =>
                 /\ finished'.reply = 400
                 /\ UNCHANGED <<follow_ups, booking, TZ, bridge, call_queue, nextQueueId, calls, carrierCalls,
                                tick, handler>>
          /\ ~LacksPhoneOrContact(finished'.body) => finished'.reply # 400
          /\ finished'.reply = 202 =>
                 \E r \in call_queue' :
                     /\ r \notin call_queue
                     /\ call_queue' = call_queue \cup {r}
                     /\ r.retry_stage = 0
                     /\ r.status = "pending"
          /\ finished'.reply # 202 => call_queue' = call_queue]_vars

\* ------------------------------------- status callbacks with failing I/O
\* getCallData and updateCallData rethrow what the DB throws; an error that
\* leaves the handler uncaught is answered 500 by the framework.
ReplyError == "500 Internal Server Error"

\* the first getCallData throws: nothing in the handler catches it
ReceiveReadFails(h, sids, statuses, answeredBys) ==
    /\ handler[h].pc = "idle"
    /\ \E CallSid \in sids, CallStatus \in statuses,
          AnsweredBy \in answeredBys :
         /\ delivered' = delivered \cup {CallSid}
         /\ UNCHANGED <<follow_ups, booking, TZ, bridge, now, call_queue, nextQueueId, calls, carrierCalls,
                        tick, retryLog, firstTs>>
         /\ Step(h, Reply([IdleHandler EXCEPT !.CallSid = CallSid,
                             !.CallStatus = CallStatus,
                             !.AnsweredBy = AnsweredBy,
                             !.first = (CallSid \notin delivered),
                             !.lookups = 1], ReplyError))

\* the second getCallData throws
RetryLookupFails(h) ==
    /\ handler[h].pc = "retry_lookup"
    /\ UNCHANGED <<follow_ups, booking, TZ, bridge, now, call_queue, nextQueueId, calls, carrierCalls, tick,
                   retryLog, delivered, firstTs>>
    /\ Step(h, Reply([handler[h] EXCEPT !.lookups = 2], ReplyError))

\* updateCallData({answeredBy}) throws: caught, the handler goes on with
\* the row unchanged
UpdateAnsweredByFails(h) ==
    /\ handler[h].pc = "update_ab"
    /\ UNCHANGED <<follow_ups, booking, TZ, bridge, now, call_queue, nextQueueId, calls, carrierCalls, tick,
                   retryLog, delivered, firstTs>>
    /\ Step(h, Classify(handler[h]))

\* updateCallData({retry_scheduled: 1}) throws: in the machine branch it is
\* inside the try that also holds the carrier requests (caught, on to
\* scheduleRetry), in the retryable-failure branch nothing catches it.
\* (The write fails only while the queue ids are within MaxQueue, which
\* keeps the number of retries entered without a latch finite.)
SetRetryScheduledFails(h) ==
    /\ handler[h].pc = "latch"
    /\ nextQueueId <= MaxQueue
    /\ UNCHANGED <<follow_ups, booking, TZ, bridge, now, call_queue, nextQueueId, calls, carrierCalls, tick,
                   retryLog, delivered, firstTs>>
    /\ Step(h, IF handler[h].path = "machine"
                  THEN [handler[h] EXCEPT !.pc = "schedule"]
                  ELSE Reply(handler[h], ReplyError))

\* calls(CallSid).update({status: "completed"}) throws: caught
EndCallFails(h) ==
    /\ handler[h].pc = "end_call"
    /\ UNCHANGED <<follow_ups, booking, TZ, bridge, now, call_queue, nextQueueId, calls, carrierCalls, tick,
                   retryLog, delivered, firstTs>>
    /\ Step(h, [handler[h] EXCEPT !.nCmd = @ + 1, !.pc = "schedule",
                                  !.cmdFailed = TRUE])

\* calls(CallSid).fetch() throws: caught, no termination command
FetchCallFails(h) ==
    /\ handler[h].pc = "fetch"
    /\ UNCHANGED <<follow_ups, booking, TZ, bridge, now, call_queue, nextQueueId, calls, carrierCalls, tick,
                   retryLog, delivered, firstTs>>
    /\ Step(h, [handler[h] EXCEPT !.nCmd = @ + 1, !.pc = "schedule",
                                  !.cmdFailed = TRUE])

\* the INSERT of scheduleRetry throws: caught inside scheduleRetry
ScheduleRetryInsertFails(h) ==
    /\ handler[h].pc = "schedule"
    /\ ~MaxAttemptsReached(handler[h].call.retry_count)
    /\ ~MissingContactData(handler[h].call)
    /\ UNCHANGED <<follow_ups, booking, TZ, bridge, now, call_queue, nextQueueId, calls, carrierCalls, tick,
                   retryLog, delivered, firstTs>>
    /\ Step(h, Reply(handler[h],
                     IF handler[h].path = "machine" THEN ReplyMachine
                                                    ELSE ReplyRetry))

\* One stored call (sid 1) and callbacks for it and for a sid the table
\* does not know (sid 2), every statement and carrier request of the
\* handler succeeding or failing.
FaultAnsweredBy == {NoAnsweredBy, "human", "machine_start"}

InitFaults == CallInProgress({0, 9}, FaultAnsweredBy, FALSE)

NextFaults ==
    \/ Receive(1, {1, 2}, SysCallStatus, FaultAnsweredBy)
    \/ ReceiveReadFails(1, {1, 2}, SysCallStatus, FaultAnsweredBy)
    \/ RetryLookup(1)
    \/ RetryLookupFails(1)
    \/ UpdateAnsweredBy(1)
    \/ UpdateAnsweredByFails(1)
    \/ SetRetryScheduled(1)
    \/ SetRetryScheduledFails(1)
    \/ FetchCall(1)
    \/ EndCall(1)
    \/ EndCallFails(1)
    \/ ScheduleRetry(1)
    \/ ScheduleRetryInsertFails(1)

SpecFaults == InitFaults /\ [][NextFaults]_vars

\* C15: every callback is answered 200, whatever its call sid, status and
\* answered-by value, and also when a read or a write of the calls table
\* or a carrier request fails while it is handled.
C15_AlwaysAcknowledged ==
    finished.pc = "done" => finished.reply # ReplyError

\* ---------------------------------------------------------------- notifier
\* The notification sites of the ingress, the queue processor, retry
\* scheduling and the status handler: whether the call carries
\* .catch(console.error), what the operation does after the notification
\* (next) and what it would do if the awaited call rejected (onReject).
Site(name, caught, next, onReject) ==
    [site |-> name, caught |-> caught, next |-> next, onReject |-> onReject]

CaughtSite(name, next) == Site(name, TRUE, next, next)

NotifySites ==
    {CaughtSite("ingress: missing parameters", "reply 400"),
     Site("getSignedUrl: signed URL failure", FALSE,
          "throw signed-URL error: reply 500",
          "throw notifier error: reply 500 with another message"),
     CaughtSite("ingress: successfully queued", "reply 202"),
     CaughtSite("ingress: initial queuing failed", "reply 500"),
     Site("processCallQueue: failed to mark job", FALSE,
          "continue with the next job",
          "leave the loop: the other selected jobs are not initiated"),
     CaughtSite("processCallQueue: failed to store call data",
                "throw setCallDataError: job marked failed"),
     CaughtSite("scheduleRetry: max attempts reached", "return"),
     CaughtSite("scheduleRetry: missing data", "return"),
     CaughtSite("scheduleRetry: retry scheduling failed", "return"),
     CaughtSite("call-status: status data missing", "reply 200"),
     CaughtSite("call-status: failed to update AnsweredBy",
                "go on to the classification"),
     CaughtSite("call-status: failed to end call", "scheduleRetry"),
     CaughtSite("call-status: human connection", "reply 200")}

\* await send...(...)[.catch(console.error)] and the code that follows
AfterNotification(site, settled) ==
    IF settled = "rejected" /\ ~site.caught THEN site.onReject
                                            ELSE site.next

\* an operation reaches one of its notification sites
Notify ==
    /\ \E site \in NotifySites, outcome \in SendOutcomes :
         finished' = [pc |-> "notified", site |-> site, outcome |-> outcome,
                      next |-> AfterNotification(site,
                                   sendSlackNotification(outcome))]
    /\ UNCHANGED <<follow_ups, booking, TZ, bridge, now, call_queue, nextQueueId, calls, carrierCalls, tick,
                   handler, retryLog, delivered, firstTs, seqPrev>>

NextNotifier ==
    \/ Notify
    \/ AdvanceClock

SpecNotifier == InitIngress /\ [][NextNotifier]_vars

BridgeRoutes == {"outgoing-call.js", "part_006"}

\* close codes of a close the server did not ask for: normal closure and
\* abnormal closure (reported as unexpected by the "close" handler)
AgentCloseCodes == {"1000", "1006"}

\* the readyStates in which the carrier-side handlers close the agent socket
ClosableStates(route) ==
    IF route = "part_006" THEN {"OPEN", "CONNECTING"} ELSE {"OPEN"}

\* if (elevenLabsWs?.readyState === OPEN [|| CONNECTING]) elevenLabsWs.close()
closeElevenLabs(b) ==
    IF b.elevenLabsWs \in ClosableStates(b.route)
    THEN [b EXCEPT !.elevenLabsWs = "CLOSING"]
    ELSE b

BridgeStep(b) ==
    /\ bridge' = b
    /\ finished' = IdleHandler
    /\ UNCHANGED <<follow_ups, booking, TZ, now, call_queue, nextQueueId, calls, carrierCalls,
                   tick, handler, retryLog, delivered, firstTs, seqPrev>>

\* ws.on("message"), case "start": setupElevenLabs begins and awaits
\* getCallData / getSignedUrl
CarrierStart ==
    /\ bridge.ws = "OPEN"
    /\ bridge.setup = "none"
    /\ BridgeStep([bridge EXCEPT !.setup = "lookup"])

\* setupElevenLabs after its awaits: new WebSocket(signedUrl); the state
\* of ws is not looked at
SetupConnect ==
    /\ bridge.setup = "lookup"
    /\ BridgeStep([bridge EXCEPT !.setup = "done",
                                 !.elevenLabsWs = "CONNECTING"])

\* setupElevenLabs: getCallData or getSignedUrl throws, no agent socket
SetupFails ==
    /\ bridge.setup = "lookup"
    /\ BridgeStep([bridge EXCEPT !.setup = "failed"])

\* elevenLabsWs "open": the socket is OPEN when the handler runs and the
\* handler sends initialConfig if (readyState === OPEN)
AgentOpen ==
    /\ bridge.elevenLabsWs = "CONNECTING"
    /\ LET opened == [bridge EXCEPT !.elevenLabsWs = "OPEN"]
       IN  BridgeStep(IF opened.elevenLabsWs = "OPEN"
                         THEN [opened EXCEPT !.sent = Append(@,
                                  "conversation_initiation_client_data")]
                         ELSE opened)

\* variant: media is passed on whatever the state of the agent socket
forwardMedia_AnyState(b) == [b EXCEPT !.sent = Append(@, "user_audio")]

\* case "media": if (elevenLabsWs?.readyState === OPEN) send user_audio
forwardMedia(b) ==
    IF b.elevenLabsWs = "OPEN"
       THEN [b EXCEPT !.sent = Append(@, "user_audio")]
       ELSE [b EXCEPT !.dropped = TRUE]

\* ws.on("message"), case "media"
CarrierMedia ==
    /\ bridge.ws = "OPEN"
    /\ Len(bridge.sent) < MaxFrames
    /\ BridgeStep(forwardMedia(bridge))

\* elevenLabsWs.on("close") logs and notifies, ws is left as it is
AgentClosed(code) ==
    BridgeStep([bridge EXCEPT
        !.elevenLabsWs = "CLOSED",
        !.closeCode = code,
        !.first = IF bridge.ws = "OPEN" /\ @ = "none" THEN "agent" ELSE @])

\* the connection attempt fails: "error", then "close" with code 1006
AgentConnectFails ==
    /\ bridge.elevenLabsWs = "CONNECTING"
    /\ AgentClosed("1006")

\* the agent ends the conversation or the connection is lost
AgentClose ==
    /\ bridge.elevenLabsWs = "OPEN"
    /\ \E code \in AgentCloseCodes : AgentClosed(code)

\* the closing handshake started by elevenLabsWs.close() completes (no
\* status code was given to close(): the event carries 1005)
AgentCloseDone ==
    /\ bridge.elevenLabsWs = "CLOSING"
    /\ BridgeStep([bridge EXCEPT !.elevenLabsWs = "CLOSED",
                                 !.closeCode = "1005"])

\* ws.on("message"), case "stop" ("end" in part_006)
CarrierStop ==
    /\ bridge.ws = "OPEN"
    /\ bridge.setup # "none"
    /\ BridgeStep(closeElevenLabs(bridge))

\* ws.on("close")
CarrierClose ==
    /\ bridge.ws = "OPEN"
    /\ BridgeStep([closeElevenLabs(bridge) EXCEPT
           !.ws = "CLOSED",
           !.first = IF @ = "none" THEN "carrier" ELSE @,
           !.atClose = bridge.elevenLabsWs])

InitBridge ==
    /\ now = 0
    /\ call_queue = {}
    /\ nextQueueId = 1
    /\ calls = <<>>
    /\ carrierCalls = <<>>
    /\ tick = [t \in TickIds |-> IdleTick]
    /\ handler = [h \in HandlerIds |-> IdleHandler]
    /\ retryLog = {}
    /\ delivered = {}
    /\ firstTs = <<>>
    /\ finished = IdleHandler
    /\ seqPrev = NoSeq
    /\ bridge \in {[NoBridge EXCEPT !.route = r, !.ws = "OPEN"] :
                      r \in BridgeRoutes}
    /\ TZ = 0
    /\ booking = NoBooking
    /\ follow_ups = NoFollowUps

NextBridge ==
    \/ CarrierStart
    \/ SetupConnect
    \/ SetupFails
    \/ AgentOpen
    \/ AgentConnectFails
    \/ AgentClose
    \/ AgentCloseDone
    \/ CarrierStop
    \/ CarrierClose
    \/ CarrierMedia
    \/ AdvanceClock

\* Awaited requests settle, a connection attempt ends and a closing
\* handshake completes; neither peer is obliged ever to hang up.
SpecBridge ==
    /\ InitBridge
    /\ [][NextBridge]_vars
    /\ WF_vars(SetupConnect \/ SetupFails)
    /\ WF_vars(AgentOpen \/ AgentConnectFails)
    /\ WF_vars(AgentCloseDone)

\* the agent socket is closed, or none exists and none will be created
AgentGone ==
    \/ bridge.elevenLabsWs = "CLOSED"
    \/ bridge.elevenLabsWs = "null" /\ bridge.setup \in {"none", "failed"}

\* C17: in every bridge session, once the carrier media socket has closed
\* the agent socket is eventually closed (also when it was still
\* connecting), and once the agent socket has closed first the carrier
\* media socket is eventually closed.
C17_EitherCloseClosesOther ==
    /\ (bridge.ws = "CLOSED") ~> AgentGone
    /\ (bridge.first = "agent") ~> (bridge.ws = "CLOSED")

\* ---------------------------------------------------------- retry ladder
\* The scheduling step of scheduleRetry as a function of the current time
\* (whole hours since a midnight UTC), the attempt index of the call that
\* just ended, the forceImmediate option and the server's time zone.
ServerZones == {0, 1, 9}

\* Europe/Rome in winter time (CET), hours ahead of UTC
RomeOffset == 1

AttemptIndexes == 0 .. 8

\* scheduleRetry up to scheduled_at_iso, for currentAttemptNumber = i
ScheduleAt ==
    /\ \E i \in AttemptIndexes, force \in BOOLEAN :
         finished' = [pc |-> "scheduled", i |-> i, forceImmediate |-> force,
                      scheduled_at |->
                          ToISOString(scheduled_at_base(i + 1, force))]
    /\ UNCHANGED <<follow_ups, booking, TZ, bridge, now, call_queue, nextQueueId, calls,
                   carrierCalls, tick, handler, retryLog, delivered, firstTs,
                   seqPrev>>

InitSchedule ==
    /\ now \in 0 .. MaxHour
    /\ call_queue = {}
    /\ nextQueueId = 1
    /\ calls = <<>>
    /\ carrierCalls = <<>>
    /\ tick = [t \in TickIds |-> IdleTick]
    /\ handler = [h \in HandlerIds |-> IdleHandler]
    /\ retryLog = {}
    /\ delivered = {}
    /\ firstTs = <<>>
    /\ finished = IdleHandler
    /\ seqPrev = NoSeq
    /\ bridge = NoBridge
    /\ TZ \in ServerZones
    /\ booking = NoBooking
    /\ follow_ups = NoFollowUps

NextSchedule == ScheduleAt

SpecSchedule == InitSchedule /\ [][NextSchedule]_vars

\* the hour of the wall clock, offset hours ahead of UTC, at instant t
WallClockHour(t, offset) == (t + offset) % 24

\* the hour of day of the next-occurrence step after attempt index i
LadderHour(i) == CASE i = 3 -> 9 [] i = 5 -> 14 [] i = 7 -> 19

Scheduled == finished.pc = "scheduled"

ScheduledNextTime ==
    /\ Scheduled
    /\ ~finished.forceImmediate
    /\ finished.i \in {3, 5, 7}

\* C18: a retry scheduled at t after attempt index i gets scheduled_at = t
\* for i in {0, 2, 4, 6, 8}, t + 1h for i = 1, and for i = 3, 5, 7 the next
\* instant after t at which the server's wall clock shows 09:00, 14:00,
\* 19:00; with forceImmediate it is t for every i.
C18_RetryLadder ==
    Scheduled =>
        LET at == finished.scheduled_at[2]
            i == finished.i
        IN  /\ finished.scheduled_at[1] = "ISO"
            /\ finished.forceImmediate => at = now
            /\ ~finished.forceImmediate /\ i \in {0, 2, 4, 6, 8} => at = now
            /\ ~finished.forceImmediate /\ i = 1 => at = now + 1
            /\ ScheduledNextTime =>
                  /\ at \in (now + 1) .. (now + 24)
                  /\ WallClockHour(at, TZ) = LadderHour(i)

\* C18 witness: after attempt index 5 in the afternoon, 14:00 is next day's
C18_Witness ==
    /\ ScheduledNextTime
    /\ finished.i = 5
    /\ WallClockHour(now, TZ) > 14

\* the smallest instant at or after t at which the wall clock of
\* Europe/Rome shows hour:00
NextInRome(t, hour) ==
    CHOOSE s \in t .. (t + 23) : WallClockHour(s, RomeOffset) = hour

\* C19: a next-occurrence step with hour H schedules the smallest instant
\* at or after t whose wall-clock time in Europe/Rome is H:00, whatever
\* the time zone of the server process.
C19_NextOccurrenceInRome ==
    ScheduledNextTime =>
        finished.scheduled_at[2] = NextInRome(now, LadderHour(finished.i))

MaxLockTime == 2

BookingContacts == {1, 2}
BookingSlots == {MaxLockTime, MaxLockTime + 1}

lock_duration == 1

\* `${location_id}_${calendarId}_${effectiveContactId}_${slot_utc_iso}`
\* (location and calendar are configuration constants)
lock_id(contact, slot) == <<contact, slot>>

LockRow(contact, slot, status, expires_at) ==
    [lock_id |-> lock_id(contact, slot), contact_id |-> contact,
     slot_utc_iso |-> slot, status |-> status, expires_at |-> expires_at]

\* SELECT ... FROM active_bookings_lock WHERE lock_id = ?
LockRows(locks, id) == {row \in locks : row.lock_id = id}

\* the contacts that hold an unexpired lock row for the slot
SlotHolders(locks, slot) ==
    {row.contact_id : row \in {x \in locks : /\ x.slot_utc_iso = slot
                                            /\ x.expires_at >= now}}

BookingDone(b, fin) ==
    /\ booking' = b
    /\ finished' = fin
    /\ UNCHANGED <<follow_ups, TZ, bridge, call_queue, nextQueueId, calls,
                   carrierCalls,
                   tick, handler, retryLog, delivered, firstTs, seqPrev>>

BookingStep(b) == BookingDone(b, IdleHandler)

\* the request is answered (without a CRM call unless it came from "crm")
BookingReply(r) == [booking EXCEPT !.req[r] = IdleRequest]

\* the lock is acquired and bookGHLAppointment is called; finished
\* records the call and who held the slot when the lock was taken
Proceeds(r, locks) ==
    LET q == booking.req[r]
    IN  BookingDone([booking EXCEPT !.locks = locks, !.req[r].pc = "crm"],
                    [pc |-> "crm", contact |-> q.contact, slot |-> q.slot,
                     holders |-> SlotHolders(booking.locks, q.slot)])

\* the handler up to the local check: a contact with a booked future
\* appointment in active_bookings_lock is answered 409
\* EXISTING_APPOINTMENT_LOCAL
BookAppointment(r) ==
    /\ booking.req[r].pc = "idle"
    /\ \E contact \in BookingContacts, slot \in BookingSlots :
         IF \E row \in booking.locks :
                /\ row.contact_id = contact
                /\ row.status = "booked"
                /\ row.slot_utc_iso > now
         THEN BookingStep(BookingReply(r))
         ELSE BookingStep([booking EXCEPT
                  !.req[r] = [IdleRequest EXCEPT !.pc = "insert",
                                 !.contact = contact, !.slot = slot]])
    /\ UNCHANGED now

\* new_expires_at_iso = now + lock_duration_ms and INSERT INTO
\* active_bookings_lock ... 'pending'; a UNIQUE failure leads to the SELECT
\* of the existing lock
InsertLock(r) ==
    LET q == booking.req[r]
    IN  /\ q.pc = "insert"
        /\ IF LockRows(booking.locks, lock_id(q.contact, q.slot)) = {}
           THEN Proceeds(r, booking.locks \cup
                    {LockRow(q.contact, q.slot, "pending",
                             now + lock_duration)})
           ELSE BookingStep([booking EXCEPT
                    !.req[r].pc = "select",
                    !.req[r].new_expires_at = now + lock_duration])
        /\ UNCHANGED now

\* the INSERT fails for another reason: acquired_lock stays false, 500
InsertLockFails(r) ==
    /\ booking.req[r].pc = "insert"
    /\ BookingStep(BookingReply(r))
    /\ UNCHANGED now

\* SELECT of the existing lock: expired -> take over; pending or booked
\* -> 200; another status -> 409; no row -> 500
SelectLock(r) ==
    LET q == booking.req[r]
        rows == LockRows(booking.locks, lock_id(q.contact, q.slot))
    IN  /\ q.pc = "select"
        /\ IF \E row \in rows : row.expires_at < now
           THEN \E row \in rows :
                   BookingStep([booking EXCEPT
                       !.req[r].pc = "takeover",
                       !.req[r].seen = row.expires_at])
           ELSE BookingStep(BookingReply(r))
        /\ UNCHANGED now

\* UPDATE ... SET status = 'pending', expires_at = new_expires_at_iso
\* WHERE lock_id = ? AND expires_at = ?; changes = 0 leads to the second
\* SELECT
TakeOver(r) ==
    LET q == booking.req[r]
        rows == {row \in LockRows(booking.locks, lock_id(q.contact, q.slot)) :
                    row.expires_at = q.seen}
    IN  /\ q.pc = "takeover"
        /\ IF rows # {}
           THEN Proceeds(r, (booking.locks \ rows) \cup
                    {LockRow(q.contact, q.slot, "pending",
                             q.new_expires_at)})
           ELSE BookingStep([booking EXCEPT !.req[r].pc = "recheck"])
        /\ UNCHANGED now

\* the SELECT after a failed take-over: 200 or 409, no CRM call
RecheckLock(r) ==
    /\ booking.req[r].pc = "recheck"
    /\ BookingStep(BookingReply(r))
    /\ UNCHANGED now

\* bookGHLAppointment returned: status 'booked' and 201, or the lock row
\* is deleted
CrmReturns(r) ==
    LET q == booking.req[r]
        rows == LockRows(booking.locks, lock_id(q.contact, q.slot))
    IN  /\ q.pc = "crm"
        /\ \E success \in BOOLEAN :
             BookingStep([BookingReply(r) EXCEPT
                 !.locks = IF success
                           THEN (@ \ rows) \cup
                                {[row EXCEPT !.status = "booked"] :
                                     row \in rows}
                           ELSE @ \ rows,
                 !.appointments = IF success
                                  THEN @ \cup {<<q.contact, q.slot>>}
                                  ELSE @])
        /\ UNCHANGED now

\* cleanupOldBookingLocks: DELETE ... WHERE expires_at < now
cleanupOldBookingLocks ==
    /\ \E row \in booking.locks : row.expires_at < now
    /\ BookingStep([booking EXCEPT
           !.locks = {row \in @ : ~(row.expires_at < now)}])
    /\ UNCHANGED now

LockTimePasses ==
    /\ now < MaxLockTime
    /\ now' = now + 1
    /\ BookingStep(booking)

InitBooking ==
    /\ now = 0
    /\ call_queue = {}
    /\ nextQueueId = 1
    /\ calls = <<>>
    /\ carrierCalls = <<>>
    /\ tick = [t \in TickIds |-> IdleTick]
    /\ handler = [h \in HandlerIds |-> IdleHandler]
    /\ retryLog = {}
    /\ delivered = {}
    /\ firstTs = <<>>
    /\ finished = IdleHandler
    /\ seqPrev = NoSeq
    /\ bridge = NoBridge
    /\ TZ = 0
    /\ booking = NoBooking
    /\ follow_ups = NoFollowUps

NextBooking ==
    \/ \E r \in BookingRequests :
          \/ BookAppointment(r)
          \/ InsertLock(r)
          \/ InsertLockFails(r)
          \/ SelectLock(r)
          \/ TakeOver(r)
          \/ RecheckLock(r)
          \/ CrmReturns(r)
    \/ cleanupOldBookingLocks
    \/ LockTimePasses

SpecBooking == InitBooking /\ [][NextBooking]_vars

\* C21: a /bookAppointment request proceeds to the CRM booking call only
\* when no unexpired lock for its calendar slot exists, whichever contact
\* holds it; so of the requests for one slot that are concurrent or
\* repeated while a lock for the slot is unexpired, at most one proceeds.
C21_OneBookingPerSlot ==
    finished.pc = "crm" => finished.holders = {}

\* the lock as built: a request proceeds only when its own contact holds
\* no unexpired lock for the slot
OneBookingPerSlotAndContact ==
    finished.pc = "crm" => finished.contact \notin finished.holders

\* ------------------------------------------------------ crash and restart
\* what `finished` shows for one step after the process has come up again
RestartedRun == [IdleHandler EXCEPT !.pc = "restarted"]

\* The process dies while a run of the queue processor is in progress and
\* is started again: the run's local state is gone, the tables are as the
\* crash left them, and startQueueProcessor only creates the carrier
\* client and arms the timer.
Restart ==
    /\ tick[1].pc # "idle"
    /\ tick' = [t \in TickIds |-> IdleTick]
    /\ finished' = RestartedRun
    /\ UNCHANGED <<follow_ups, booking, TZ, bridge, now, call_queue, nextQueueId, calls,
                   carrierCalls, handler, retryLog, delivered, firstTs,
                   seqPrev>>

NextRestart ==
    \/ TickStart(1)
    \/ TickMark(1)
    \/ TickCreate(1)
    \/ TickStore(1)
    \/ TickDelete(1)
    \/ TickFail(1)
    \/ AdvanceClock
    \/ Restart

\* The timer keeps firing and every awaited statement or request of a run
\* settles; a crash may but need not happen.
SpecRestart ==
    /\ InitQueue
    /\ [][NextRestart]_vars
    /\ WF_vars(TickStart(1))
    /\ WF_vars(TickMark(1) \/ TickCreate(1) \/ TickStore(1)
                 \/ TickDelete(1) \/ TickFail(1))

InFlight(id) ==
    \E row \in call_queue : row.queue_id = id /\ row.status = "processing"

\* C22: an entry that is in-flight (status 'processing') when the process
\* comes up after a crash is eventually in-flight no more.
C22_StaleInFlightRecovered ==
    \A id \in 1 .. MaxQueue :
        (finished = RestartedRun /\ InFlight(id)) ~> ~InFlight(id)

\* C23: at most one run of the queue processor is in progress at any
\* time: no run selects entries while another run of the process is still
\* selecting or initiating.
C23_OneTickAtATime ==
    \A t, u \in TickIds :
        tick[t].pc # "idle" /\ tick[u].pc # "idle" => t = u

\* ------------------------------------------- queue processor with faults
\* The runs of the queue processor, overlapping as the timer allows, on
\* one due entry, with every awaited statement of an iteration able to
\* throw.
NextTickFaults ==
    \/ \E t \in TickIds : TickStart(t)
    \/ \E t \in TickIds : TickMark(t)
    \/ \E t \in TickIds : TickMarkFails(t)
    \/ \E t \in TickIds : TickCreate(t)
    \/ \E t \in TickIds : TickStore(t)
    \/ \E t \in TickIds : TickStoreFails(t)
    \/ \E t \in TickIds : TickDelete(t)
    \/ \E t \in TickIds : TickDeleteFails(t)
    \/ \E t \in TickIds : TickFail(t)
    \/ \E t \in TickIds : TickFailFails(t)
    \/ AdvanceClock

SpecTickFaults == Init /\ [][NextTickFaults]_vars

\* C24: a run removes a queue entry only when the CallState row of the
\* call it created for that entry is stored: at every DELETE the row of
\* the created call-id exists and carries the entry's contact, and it is
\* still there afterwards.
C24_DeleteAfterStore ==
    [][\A t \in TickIds :
          tick[t].pc = "delete" /\ call_queue' = DeleteJob(callJob(t).queue_id)
                                /\ tick'[t] # tick[t] =>
              LET sid == tick[t].callRecord
              IN  /\ sid \in DOMAIN calls
                  /\ calls[sid].callSid = sid
                  /\ calls[sid].contactId = callJob(t).contact_id
                  /\ calls[sid].status = "initiated"
                  /\ sid \in DOMAIN calls']_vars

\* C24 witness: entry 1 is gone from the queue and the row of a call
\* created for it is stored
C24_Witness ==
    /\ \A r \in call_queue : r.queue_id # 1
    /\ \E sid \in DOMAIN calls : carrierCalls[sid] = 1

\* C25: whenever scheduleRetry inserts a retry entry for a call sid,
\* retry_scheduled is already stored as 1 for that sid, in the
\* machine-detected branch and in the retryable-failure branch, also when
\* the latch write or a carrier request of the handler fails.
C25_LatchedBeforeRetryInserted ==
    [][\A e \in retryLog' \ retryLog :
          /\ e[1] \in DOMAIN calls
          /\ calls[e[1]].retry_scheduled = 1]_vars

\* -------------------------------------------- callbacks, carrier failing
\* One stored call at attempt index 0, 8 or 9, latched or not, and the
\* callbacks for it one after the other with every status and answered-by
\* value; the carrier requests of the handler succeed or throw, the
\* database statements succeed.
InitCarrier == CallInProgress({0, 8, 9}, AllAnsweredBy, FALSE)

NextCarrier ==
    \/ Receive(1, {1}, AllCallStatus, AllAnsweredBy)
    \/ UpdateAnsweredBy(1)
    \/ SetRetryScheduled(1)
    \/ FetchCall(1)
    \/ FetchCallFails(1)
    \/ EndCall(1)
    \/ EndCallFails(1)
    \/ ScheduleRetry(1)

SpecCarrier == InitCarrier /\ [][NextCarrier]_vars

\* the callback answered in the last step was for an unlatched call, with
\* a status that is not terminal and a machine answered-by value
MachineMidCall ==
    /\ Handled
    /\ ~finished.latchedAtStart
    /\ finished.CallStatus \in {"initiated", "ringing", "in-progress"}
    /\ MachineValue(finished.AnsweredBy)

\* the latch is stored, the carrier was asked about the call and the
\* callback was acknowledged as machine-detected
MachineHandled ==
    /\ finished.reply = ReplyMachine
    /\ calls[finished.CallSid].retry_scheduled = 1
    /\ finished.nCmd \in {1, 2}

\* the one retry entry of the callback: attempt index one higher
OneRetryInserted ==
    /\ finished.nIns = 1
    /\ \E row \in call_queue :
         /\ row.queue_id = nextQueueId - 1
         /\ row.retry_stage = finished.call.retry_count + 1
         /\ row.contact_id = finished.call.contactId
         /\ row.status = "pending"

\* C26 as stated: a machine answered-by on a non-terminal status for an
\* unlatched call sets the latch, asks the carrier to end the call and
\* schedules exactly one retry with the attempt index one higher, whether
\* or not the carrier request fails.
C26_MachineMidCallRetries ==
    MachineMidCall => MachineHandled /\ OneRetryInserted

\* C26: the same for attempt indexes below MAX_TOTAL_ATTEMPTS - 1; at
\* MAX_TOTAL_ATTEMPTS - 1 the latch is set and the carrier asked, and no
\* retry entry is created.
C26_MachineMidCallRetriesBelowMax ==
    MachineMidCall =>
        /\ MachineHandled
        /\ IF finished.call.retry_count < MAX_TOTAL_ATTEMPTS - 1
              THEN OneRetryInserted
              ELSE finished.nIns = 0 /\ call_queue = {}

\* C26 witness: the carrier request threw and the retry was scheduled
C26_Witness ==
    /\ MachineMidCall
    /\ finished.cmdFailed
    /\ finished.CallStatus = "ringing"
    /\ OneRetryInserted

\* C27: a callback whose status is no-answer, busy, failed, completed or
\* canceled causes no request to the carrier, neither a fetch of the call
\* nor a command to end it, whatever its answered-by value.
C27_NoCarrierRequestAfterEnd ==
    (/\ Handled
     /\ finished.CallStatus \in
            {"no-answer", "busy", "failed", "completed", "canceled"})
        => finished.nCmd = 0

\* --------------------------- queue processor, initiation failing only
\* Runs of processCallQueue in which calls.create, setCallData and the
\* read-back may throw and every statement on call_queue succeeds.
NextCallFaults ==
    \/ \E t \in TickIds : TickStart(t)
    \/ \E t \in TickIds : TickMark(t)
    \/ \E t \in TickIds : TickCreate(t)
    \/ \E t \in TickIds : TickStore(t)
    \/ \E t \in TickIds : TickStoreFails(t)
    \/ \E t \in TickIds : TickDelete(t)
    \/ \E t \in TickIds : TickFail(t)
    \/ AdvanceClock

SpecCallFaults == Init /\ [][NextCallFaults]_vars

\* C28: when the creation of the call, the CallState write or the
\* read-back has failed for a selected entry, the iteration leaves the
\* entry in the queue with status failed and a last-error, and creates no
\* retry entry for it.
C28_FailedEntryKept ==
    [][\A t \in TickIds :
         (/\ tick[t].pc = "fail"
          /\ tick[t].thrown \in {"create", "store"}
          /\ tick'[t] # tick[t])
            => /\ \E r \in call_queue' :
                    /\ r.queue_id = callJob(t).queue_id
                    /\ r.status = "failed"
                    /\ r.last_error = "error"
               /\ nextQueueId' = nextQueueId]_vars

\* the handler h has found no row twice in this step
MissedTwice(h) ==
    /\ handler[h].pc = "retry_lookup"
    /\ handler'[h].pc # "retry_lookup"
    /\ handler[h].CallSid \notin DOMAIN calls

\* C29: a callback whose CallState row is absent at the first lookup and at
\* the one retry lookup is acknowledged as unknown and changes neither the
\* queue nor the CallState table, and no callback is answered as unknown
\* before or after another number of lookups than two.
C29_UnknownCallbackDropped ==
    /\ [](finished.reply = ReplyUnknown =>
            /\ finished.pc = "done"
            /\ finished.lookups = 2
            /\ ~finished.wrote /\ finished.nCmd = 0 /\ finished.nIns = 0)
    /\ [][\A h \in HandlerIds :
            MissedTwice(h) =>
                /\ finished'.reply = ReplyUnknown
                /\ finished'.CallSid = handler[h].CallSid
                /\ handler'[h] = IdleHandler
                /\ call_queue' = call_queue
                /\ calls' = calls
                /\ nextQueueId' = nextQueueId]_vars

\* C29 witness: a callback was dropped after two lookups while the queue
\* holds an entry and the table a row of another call
C29_Witness ==
    /\ finished.pc = "done"
    /\ finished.reply = ReplyUnknown
    /\ finished.lookups = 2
    /\ finished.CallSid \notin DOMAIN calls
    /\ call_queue # {}

\* ------------------------------- queue processor, one run, all failing
\* One run of processCallQueue at a time over a queue of two entries;
\* every statement of an iteration succeeds or throws.
NextQueueFaults ==
    \/ TickStart(1)
    \/ TickMark(1)
    \/ TickMarkFails(1)
    \/ TickCreate(1)
    \/ TickStore(1)
    \/ TickStoreFails(1)
    \/ TickDelete(1)
    \/ TickDeleteFails(1)
    \/ TickFail(1)
    \/ TickFailFails(1)
    \/ AdvanceClock

SpecQueueFaults == InitQueue /\ [][NextQueueFaults]_vars

\* this step ends an iteration of run t in which marking or initiating the
\* entry failed
IterationFailed(t) ==
    /\ tick'[t] # tick[t]
    /\ \/ tick[t].pc = "mark" /\ tick'[t].pc # "create"
       \/ tick[t].pc = "fail"

\* C30: a failure while marking or initiating one entry ends neither the
\* run nor the scheduler: the run goes on with the next entry it selected,
\* if there is one, and whenever no run is in progress the next one can
\* start.
C30_FailureDoesNotStopTheRun ==
    /\ [][IterationFailed(1) =>
            IF tick[1].i < Len(tick[1].pendingCalls)
               THEN /\ tick'[1].pc = "mark"
                    /\ tick'[1].i = tick[1].i + 1
                    /\ tick'[1].pendingCalls = tick[1].pendingCalls
               ELSE tick'[1] = IdleTick]_vars
    /\ [](tick[1].pc = "idle" => ENABLED TickStart(1))

\* C30 witness: the first selected entry has failed and the call of the
\* second one has been created
C30_Witness ==
    /\ tick[1].pc = "store"
    /\ tick[1].i = 2
    /\ \E r \in call_queue :
         /\ r.queue_id = tick[1].pendingCalls[1].queue_id
         /\ r.status = "failed"

\* C31: the queue entry that retry scheduling inserts for a call carries
\* the attempt index of the call's CallState row plus one and status
\* pending, and the CallState row the queue processor writes for a created
\* call carries the attempt index of the queue entry it was created for.
C31_AttemptIndexStepsByOne ==
    [][/\ \A h \in HandlerIds :
            (/\ handler[h].pc = "schedule"
             /\ handler'[h] # handler[h]
             /\ nextQueueId' # nextQueueId) =>
                \E r \in call_queue' :
                    /\ r.queue_id = nextQueueId
                    /\ r.status = "pending"
                    /\ r.retry_stage = calls[handler[h].CallSid].retry_count + 1
                    /\ r.contact_id = calls[handler[h].CallSid].contactId
       /\ \A t \in TickIds :
            (tick[t].pc = "store" /\ tick'[t] # tick[t] /\ calls' # calls) =>
                /\ calls'[tick[t].callRecord].retry_count
                       = callJob(t).retry_stage
                /\ \A r \in call_queue :
                       r.queue_id = callJob(t).queue_id =>
                           r.retry_stage = callJob(t).retry_stage]_vars

\* C31 witness: entry at index 8, its call at index 8, the retry entry at
\* index 9 and the call created for that entry at index 9
C31_Witness ==
    \E a, b \in DOMAIN calls :
        /\ calls[a].retry_count = 8
        /\ calls[a].retry_scheduled = 1
        /\ calls[b].retry_count = 9
        /\ calls[b].contactId = calls[a].contactId
        /\ \E e \in retryLog : e[1] = a /\ carrierCalls[b] = e[2]

\* C32: on an agent connection the initiation frame is sent exactly once,
\* in the step in which the agent socket opens, every other frame sent is
\* a user_audio frame after it, and a media frame of the carrier is
\* forwarded only while the agent socket is open.
C32_InitiationFrameFirst ==
    /\ [](\A i \in 1..Len(bridge.sent) :
            (bridge.sent[i] = "conversation_initiation_client_data")
                <=> (i = 1))
    /\ [][/\ (bridge.elevenLabsWs # "OPEN" /\ bridge'.elevenLabsWs = "OPEN")
               <=> (bridge'.sent = <<"conversation_initiation_client_data">>
                      /\ bridge.sent = <<>>)
          /\ (Len(bridge'.sent) > Len(bridge.sent) /\ bridge.sent # <<>>)
               => bridge.elevenLabsWs = "OPEN"]_vars

\* C32 witness: a media frame arrived before the agent socket was open and
\* was dropped, the initiation frame was sent, later media was forwarded
C32_Witness ==
    /\ bridge.dropped
    /\ bridge.sent = <<"conversation_initiation_client_data", "user_audio",
                       "user_audio">>

\* ------------------------------------------------------------ robustFetch
\* What one attempt of fetch() gives: a response with a status, an
\* AbortError of the timeout, a network error or an error of another kind
\* (lower-cased message or code).
Response(status) == [name |-> "response", status |-> status, text |-> ""]

FetchError(name, text) == [name |-> name, status |-> 0, text |-> text]

FetchOutcomes ==
    {Response(st) : st \in {200, 400, 408, 429, 500, 501}}
        \cup {FetchError("AbortError", "This operation was aborted"),
              FetchError("Error", "econnreset"),
              FetchError("TypeError", "invalid url")}

retryablePatterns ==
    {"fetch failed", "econnreset", "econnrefused", "etimedout", "enotfound",
     "eai_again", "eproto", "ehostunreach", "enetunreach", "socket hang up",
     "network timeout", "request timeout"}

\* the lower-cased message or code of the error includes one of the patterns
isRetryableError(error) == error.text \in retryablePatterns

isRetryableStatus(status) ==
    status \in {408, 429, 500, 502, 503, 504, 507, 509, 510}

\* variant: the general-purpose configuration allows three retries
createRobustFetch_ThreeRetries ==
    [maxRetries |-> 3, baseDelay |-> 1000, maxDelay |-> 10000,
     backoffFactor |-> 2, retryOnStatus |-> TRUE]

\* the retryConfig of createRobustFetch (times in ms)
createRobustFetch ==
    [maxRetries |-> 2, baseDelay |-> 1000, maxDelay |-> 10000,
     backoffFactor |-> 2, retryOnStatus |-> TRUE]

\* the configurations robustFetch is run with: createRobustFetch, and
\* variants of it with fewer retries and a cap the backoff reaches
FetchConfigs ==
    {createRobustFetch}
        \cup {[createRobustFetch EXCEPT !.maxRetries = n, !.maxDelay = 1500] :
                 n \in 0..2}

\* the loop of robustFetch from `attempt` on, outcomes[k] being what the
\* k-th fetch() gives and delays the sleeps made so far
RECURSIVE robustFetch(_, _, _, _)
robustFetch(attempt, outcomes, retryConfig, delays) ==
    IF attempt > retryConfig.maxRetries
       THEN [result |-> "throw", attempts |-> attempt, delays |-> delays]
    ELSE LET o == outcomes[attempt + 1]
             ok == o.status \in 200..299
             retryable ==
                IF o.name = "response"
                   THEN retryConfig.retryOnStatus /\ ~ok
                            /\ isRetryableStatus(o.status)
                   ELSE o.name = "AbortError" \/ isRetryableError(o)
             delay == Min(retryConfig.baseDelay
                              * retryConfig.backoffFactor ^ attempt,
                          retryConfig.maxDelay)
         IN  IF retryable /\ attempt < retryConfig.maxRetries
                THEN robustFetch(attempt + 1, outcomes, retryConfig,
                                 Append(delays, delay))
             ELSE [result |-> IF o.name = "response" /\ ~retryable
                                 THEN "response" ELSE "throw",
                   attempts |-> attempt + 1, delays |-> delays]

\* one call of robustFetch(url, options, retryConfig) with the
\* configuration and the outcomes of the fetches that `finished` holds
RobustFetch ==
    /\ finished.pc = "fetch"
    /\ LET r == robustFetch(0, finished.outcomes, finished.retryConfig, <<>>)
       IN  finished' = [finished EXCEPT !.pc = "fetched",
                          !.result = r.result, !.attempts = r.attempts,
                          !.delays = r.delays]
    /\ UNCHANGED <<follow_ups, booking, TZ, bridge, now, call_queue, nextQueueId, calls,
                   carrierCalls, tick, handler, retryLog, delivered, firstTs,
                   seqPrev>>

\* a call of robustFetch is about to be made
InitFetch ==
    /\ now = 0
    /\ call_queue = {}
    /\ nextQueueId = 1
    /\ calls = <<>>
    /\ carrierCalls = <<>>
    /\ tick = [t \in TickIds |-> IdleTick]
    /\ handler = [h \in HandlerIds |-> IdleHandler]
    /\ retryLog = {}
    /\ delivered = {}
    /\ firstTs = <<>>
    /\ \E retryConfig \in FetchConfigs,
          outcomes \in [1..MaxFetchAttempts -> FetchOutcomes] :
         finished = [pc |-> "fetch", retryConfig |-> retryConfig,
                     outcomes |-> outcomes, result |-> "", attempts |-> 0,
                     delays |-> <<>>]
    /\ seqPrev = NoSeq
    /\ bridge = NoBridge
    /\ TZ = 0
    /\ booking = NoBooking
    /\ follow_ups = NoFollowUps

SpecFetch == InitFetch /\ [][RobustFetch]_vars

\* an outcome that is not to be retried: a 2xx response, a 4xx response
\* other than 408 and 429, an error that is neither timeout nor network
Permanent(o) ==
    \/ o.name = "response" /\ o.status \in 200..299
    \/ o.name = "response" /\ o.status \in 400..499 \ {408, 429}
    \/ o.name = "TypeError"

\* C33: robustFetch ends after at most maxRetries + 1 attempts with a
\* response or an error, with createRobustFetch after at most 3; before
\* retry number k it has slept min(baseDelay * 2^(k-1), maxDelay); no
\* attempt follows one that ended in a non-retryable error or status.
C33_FetchEndsWithinMaxRetries ==
    finished.pc = "fetched" =>
        /\ finished.result \in {"response", "throw"}
        /\ finished.attempts \in 1..(finished.retryConfig.maxRetries + 1)
        /\ finished.retryConfig = createRobustFetch => finished.attempts <= 3
        /\ Len(finished.delays) = finished.attempts - 1
        /\ \A k \in 1..Len(finished.delays) :
             /\ finished.delays[k] =
                    Min(finished.retryConfig.baseDelay * 2 ^ (k - 1),
                        finished.retryConfig.maxDelay)
             /\ ~Permanent(finished.outcomes[k])

\* C33 witness: createRobustFetch, two transient failures, then a response
C33_Witness ==
    /\ finished.pc = "fetched"
    /\ finished.retryConfig = createRobustFetch
    /\ finished.attempts = 3
    /\ finished.delays = <<1000, 2000>>
    /\ finished.result = "response"

\* an outcome that is transient: status 408, 429 or 5xx, a timeout or a
\* network error
Transient(o) ==
    \/ o.name = "response" /\ o.status \in {408, 429} \cup 500..599
    \/ o.name = "AbortError"
    \/ o.name = "Error"

\* C34: in a run of robustFetch every attempt that ended with status 408,
\* 429 or 5xx, a timeout or a network error is followed by another attempt
\* as long as retries are left, and a response with another 4xx status is
\* returned by the attempt that received it.
C34_TransientRetried ==
    finished.pc = "fetched" =>
        \A k \in 1..finished.attempts :
            LET o == finished.outcomes[k]
            IN  /\ (Transient(o) /\ k <= finished.retryConfig.maxRetries)
                       => finished.attempts > k
                /\ (o.name = "response" /\ o.status \in 400..499 \ {408, 429})
                       => finished.attempts = k /\ finished.result = "response"

\* C35: the calls created for one sequence carry attempt indexes below
\* MAX_TOTAL_ATTEMPTS and no two of them the same attempt index, so that
\* at most MAX_TOTAL_ATTEMPTS calls are created for it.
C35_OneCallPerAttemptIndex ==
    \A a, b \in DOMAIN calls :
        /\ calls[a].retry_count \in 0..(MAX_TOTAL_ATTEMPTS - 1)
        /\ (a # b /\ calls[a].contactId = calls[b].contactId)
               => calls[a].retry_count # calls[b].retry_count

\* ------------------------------------------- queue processor, fair runs
\* The timer keeps firing, every awaited statement or request of a run
\* settles, and again and again a run finds a free carrier slot when an
\* entry is due.
SpecQueueFair ==
    /\ InitQueue
    /\ [][NextQueue]_vars
    /\ WF_vars(TickMark(1) \/ TickCreate(1) \/ TickStore(1)
                 \/ TickDelete(1) \/ TickFail(1))
    /\ SF_vars(TickStart(1) /\ tick'[1].pc = "mark")

\* the entry is pending and its scheduled_at has passed
Due(id) ==
    \E row \in call_queue :
        /\ row.queue_id = id
        /\ row.status = "pending"
        /\ IsoLE(row.scheduled_at, ToISOString(DateNow))

\* the entry has been deleted or is marked failed
Served(id) ==
    \A row \in call_queue : row.queue_id = id => row.status = "failed"

TookOver(r) ==
    /\ booking.req[r].pc = "crm"
    /\ booking.req[r].seen # 0

\* no two requests that matched the same expiry of the same lock row are
\* both calling the CRM
OneTakeoverPerExpiredLock ==
    \A r1, r2 \in BookingRequests :
        (/\ r1 # r2
         /\ TookOver(r1) /\ TookOver(r2)
         /\ booking.req[r1].contact = booking.req[r2].contact
         /\ booking.req[r1].slot = booking.req[r2].slot)
            => booking.req[r1].seen # booking.req[r2].seen

\* a request starts the CRM call only in the step in which its INSERT or
\* its take-over UPDATE wrote the lock row
CrmOnlyWithLock ==
    [][\A r \in BookingRequests :
        (booking.req[r].pc # "crm" /\ booking'.req[r].pc = "crm") =>
            LET q == booking.req[r]
                rows == LockRows(booking.locks, lock_id(q.contact, q.slot))
            IN  /\ \/ q.pc = "insert" /\ rows = {}
                   \/ q.pc = "takeover"
                        /\ \E row \in rows : row.expires_at = q.seen
                /\ \E row \in booking'.locks :
                     /\ row.lock_id = lock_id(q.contact, q.slot)
                     /\ row.status = "pending"]_vars

\* C37: of the requests that found the same expired lock row at most one
\* takes it over and calls the CRM, and a request never starts the CRM call
\* without having inserted the lock row or taken it over.
C37_OneTakeoverPerExpiredLock ==
    /\ []OneTakeoverPerExpiredLock
    /\ CrmOnlyWithLock

\* the contact has an appointment in the CRM calendar, booked through
\* /bookAppointment, whose slot has not passed
HasFutureAppointment(contact) ==
    \E a \in booking.appointments : a[1] = contact /\ a[2] > now

\* request r gets past the local check for the contact
PassesLocalCheck(r, contact) ==
    /\ booking.req[r].pc = "idle"
    /\ booking'.req[r].pc = "insert"
    /\ booking'.req[r].contact = contact

\* C38: once a contact's booking for a future slot has succeeded, no later
\* /bookAppointment request of that contact gets past the local check
\* (each is answered 409 EXISTING_APPOINTMENT_LOCAL) until the slot's time
\* has passed, whatever the lock cleanup has deleted in between.
C38_BookedContactRejected ==
    [][\A r \in BookingRequests, contact \in BookingContacts :
        HasFutureAppointment(contact) => ~PassesLocalCheck(r, contact)]_vars

\* ------------------------------------------------------------- follow-ups
\* followup/manager.js: the follow_ups table, the POST /followup route and
\* the hourly run of checkAndProcessFollowUps.  The clock counts intervals
\* of the processor.
MaxFollowUpTime == 2

\* how many follow-ups are saved
MaxFollowUps == 2

FollowUpContacts == {1, 2}

\* what `finished` shows for one step after the trigger of a follow-up
\* was not accepted: the record is left in the table
FollowUpKept(followUp) ==
    [pc |-> "kept", follow_up_id |-> followUp.follow_up_id]

FollowUpDone(f, fin) ==
    /\ follow_ups' = f
    /\ finished' = fin
    /\ UNCHANGED <<booking, TZ, bridge, now, call_queue, nextQueueId, calls,
                   carrierCalls, tick, handler, retryLog, delivered, firstTs,
                   seqPrev>>

FollowUpStep(f) == FollowUpDone(f, IdleHandler)

\* POST /followup: the date must be in the future; saveFollowUp inserts a
\* pending row
SaveFollowUp ==
    /\ follow_ups.nextId <= MaxFollowUps
    /\ \E contact \in FollowUpContacts,
          followUpAtUTC \in (now + 1)..MaxFollowUpTime :
         FollowUpStep([follow_ups EXCEPT
             !.rows = @ \cup {[follow_up_id |-> follow_ups.nextId,
                               contact_id |-> contact,
                               follow_up_at_utc |-> followUpAtUTC]},
             !.nextId = @ + 1])

FollowUpTimePasses ==
    /\ now < MaxFollowUpTime
    /\ now' = now + 1
    /\ UNCHANGED <<follow_ups, booking, TZ, bridge, call_queue, nextQueueId,
                   calls, carrierCalls, tick, handler, retryLog, delivered,
                   firstTs, finished, seqPrev>>

\* SELECT ... FROM follow_ups WHERE status = 'pending' AND
\* follow_up_at_utc <= now, in any order; [] when the statement fails
getDueFollowUps ==
    LET due == {row \in follow_ups.rows : row.follow_up_at_utc <= now}
        k == Cardinality(due)
    IN  {s \in [1..k -> due] : \A i, j \in 1..k : i < j => s[i] # s[j]}
            \cup {<<>>}

\* the loop goes to the next follow-up of the run, or the run ends
NextFollowUp(run) ==
    IF run.i < Len(run.dueFollowUps)
       THEN [run EXCEPT !.pc = "details", !.i = @ + 1, !.deleting = ""]
    ELSE IdleFollowUpRun

\* variant: the record of a trigger that was not accepted is deleted
TriggerNotAccepted_Deletes(run) ==
    [run EXCEPT !.pc = "delete", !.deleting = "not accepted"]

\* the endpoint answered without 2xx, or fetch threw: a notification is
\* sent and the follow-up is not deleted
TriggerNotAccepted(run) == NextFollowUp(run)

\* the timer fires (or the processor starts): the run selects the due
\* follow-ups and returns when there are none
CheckAndProcessFollowUps ==
    /\ follow_ups.run.pc = "idle"
    /\ \E dueFollowUps \in getDueFollowUps :
         FollowUpStep([follow_ups EXCEPT !.run =
             IF Len(dueFollowUps) = 0
                THEN IdleFollowUpRun
             ELSE [IdleFollowUpRun EXCEPT !.pc = "details",
                      !.dueFollowUps = dueFollowUps, !.i = 1]])

\* getGHLContactDetails settles: with a phone the call is triggered,
\* without contact details or phone the follow-up is deleted, a throw is
\* caught and the loop goes on
GetContactDetails ==
    LET run == follow_ups.run
    IN  /\ run.pc = "details"
        /\ \E contactDetails \in {"phone", "none", "throws"} :
             FollowUpStep([follow_ups EXCEPT !.run =
                 CASE contactDetails = "phone" -> [run EXCEPT !.pc = "trigger"]
                   [] contactDetails = "none" ->
                        [run EXCEPT !.pc = "delete", !.deleting = "no phone"]
                   [] OTHER -> NextFollowUp(run)])

\* fetch(OUTBOUND_CALL_ENDPOINT) settles: response.ok leads to the delete
TriggerOutboundCall ==
    LET run == follow_ups.run
    IN  /\ run.pc = "trigger"
        /\ \E response \in {"ok", "not ok", "throws"} :
             IF response = "ok"
                THEN FollowUpStep([follow_ups EXCEPT !.run =
                         [run EXCEPT !.pc = "delete", !.deleting = "accepted"]])
             ELSE FollowUpDone(
                      [follow_ups EXCEPT !.run = TriggerNotAccepted(run)],
                      FollowUpKept(run.dueFollowUps[run.i]))

\* DELETE FROM follow_ups WHERE follow_up_id = ?; an error of the statement
\* is logged and not rethrown
deleteFollowUp ==
    LET run == follow_ups.run
        followUpId == run.dueFollowUps[run.i].follow_up_id
    IN  /\ run.pc = "delete"
        /\ \E deleted \in BOOLEAN :
             FollowUpStep([follow_ups EXCEPT
                 !.rows = IF deleted
                          THEN {row \in @ : row.follow_up_id # followUpId}
                          ELSE @,
                 !.run = NextFollowUp(run)])

InitFollowUps ==
    /\ now = 0
    /\ call_queue = {}
    /\ nextQueueId = 1
    /\ calls = <<>>
    /\ carrierCalls = <<>>
    /\ tick = [t \in TickIds |-> IdleTick]
    /\ handler = [h \in HandlerIds |-> IdleHandler]
    /\ retryLog = {}
    /\ delivered = {}
    /\ firstTs = <<>>
    /\ finished = IdleHandler
    /\ seqPrev = NoSeq
    /\ bridge = NoBridge
    /\ TZ = 0
    /\ booking = NoBooking
    /\ follow_ups = NoFollowUps

NextFollowUps ==
    \/ SaveFollowUp
    \/ FollowUpTimePasses
    \/ CheckAndProcessFollowUps
    \/ GetContactDetails
    \/ TriggerOutboundCall
    \/ deleteFollowUp

\* a run that selected a follow-up
SelectsDue ==
    CheckAndProcessFollowUps /\ follow_ups'.run.pc = "details"

\* the timer keeps firing, the SELECT of the due follow-ups succeeds again
\* and again, and every awaited step of a run settles
SpecFollowUps ==
    /\ InitFollowUps
    /\ [][NextFollowUps]_vars
    /\ WF_vars(SelectsDue)
    /\ WF_vars(GetContactDetails)
    /\ WF_vars(TriggerOutboundCall)
    /\ WF_vars(deleteFollowUp)

\* the run is at follow-up id, about to fetch the contact's details
Attempting(id) ==
    /\ follow_ups.run.pc = "details"
    /\ follow_ups.run.dueFollowUps[follow_ups.run.i].follow_up_id = id

\* the trigger of follow-up id was just answered without 2xx or threw
TriggerFailed(id) ==
    /\ finished.pc = "kept"
    /\ finished.follow_up_id = id

\* a step that removes a row of follow_ups is the delete of a run whose
\* trigger for that row was accepted or that got no phone for it
DeletedOnlyWhenServed ==
    [][\A row \in follow_ups.rows : row \notin follow_ups'.rows =>
          LET run == follow_ups.run
          IN  /\ run.pc = "delete"
              /\ run.dueFollowUps[run.i] = row
              /\ run.deleting \in {"accepted", "no phone"}]_vars

\* C39: a follow-up is deleted only after its trigger was accepted (2xx) or
\* no phone could be retrieved for the contact; after a trigger that failed
\* or threw the record is still in the table and a later run attempts it
\* again.
C39_FollowUpKeptUntilAccepted ==
    /\ DeletedOnlyWhenServed
    /\ \A id \in 1..MaxFollowUps :
         [](TriggerFailed(id) =>
               \E row \in follow_ups.rows : row.follow_up_id = id)
    /\ \A id \in 1..MaxFollowUps : TriggerFailed(id) ~> Attempting(id)

\* the trigger of follow-up 1 has just failed and its row is in the table,
\* while follow-up 2 of the same run was served and deleted
C39_Witness ==
    /\ TriggerFailed(1)
    /\ follow_ups.nextId > MaxFollowUps
    /\ {row.follow_up_id : row \in follow_ups.rows} = {1}

====
